---------------------------- MODULE Spec2Model ----------------------------
(***************************************************************************)
(* A model of the orchestration core of AvatarAI (python_ai):              *)
(*   - UnityClient          planner_layer/unity_client.py   (SpecChannel)  *)
(*   - Executor             planner_layer/executor.py       (SpecExec)     *)
(*   - AvatarAISystem._main_loop and the decision gate, main.py (Spec)     *)
(*   - AvatarAISystem._pokemon_game_loop, main.py           (SpecSim)      *)
(* Every component has its own specification over the shared variables;    *)
(* the variables of the other components keep their initial values.        *)
(***************************************************************************)
EXTENDS Integers, Sequences, FiniteSets, TLC

VARIABLES
    \* ---- UnityClient (planner_layer/unity_client.py)
    is_connected,        \* self.is_connected
    writer,              \* self.writer is not None
    should_reconnect,    \* self.should_reconnect
    send_queue,          \* self._send_queue: sequence of command ids
    sender_pc,           \* position of _sender_loop: "none" before the task exists
    sender_msg,          \* the message _sender_loop holds (0: none)
    connect_called,      \* start() has called connect()
    connecting,          \* number of connect() calls awaiting open_connection
    reconnect_sleeping,  \* number of _schedule_reconnect tasks in their sleep
    written,             \* history: command ids handed to writer.write, in order
    lost,                \* history: <<id, Len(written)>> of each failed write or drain
    next_cmd,            \* id of the next command a producer enqueues
    enq_down,            \* history: ids enqueued while is_connected was false
    disc_pc,             \* position of disconnect(): "none" (not called),
                         \*   "cleanup" (awaiting _cleanup) or "done" (returned)
    \* ---- the clock (datetime.now(), loop.time()), in ticks
    now,
    \* ---- Executor (planner_layer/executor.py)
    action_cooldown,     \* self.action_cooldown, in ticks
    action_times,        \* self.action_times: sequence of timestamps
    exec_pc,             \* position of execute_actions
    exec_n,              \* len(actions) of the running call
    exec_i,              \* index of the action the for loop is at
    exec_wake,           \* earliest time the running asyncio.sleep returns
    exec_calls,          \* history: number of execute_actions calls made
    send_times,          \* history: time of every send_action of the executor
    exec_sent,           \* history: <<index in the list, command id>> of every
                         \*   action the current call of execute_actions sent
    \* ---- AvatarAISystem: the main loop, the gate, the StateManager (main.py)
    events_queue,        \* self.events_queue: platform event ids
    game_events_queue,   \* self.game_events_queue: game event ids
    chat_queue,          \* self.chat_queue: <<id, class>>, class "text" or "command"
    main_pc,             \* position of _main_loop
    main_item,           \* <<kind, id>> of the item whose handler is running
    current_time,        \* _main_loop's local current_time (0 when dead)
    main_wake,           \* earliest time the error backoff sleep returns (0: no sleep)
    last_brain_decision_time,
    last_autonomous_decision,
    current_state,       \* StateManager.current_state
    pokemon_enabled,     \* self.pokemon_enabled (a ManualController exists)
    disable_brain_while_gaming,   \* config gameplay_comments.disable_brain_while_gaming
    next_event, next_game, next_chat,   \* ids of the next arrivals
    arrived_since_poll,  \* history: platform events put since the last empty events poll
    polled_empty,        \* history: this iteration's events poll found the queue empty
    brain_called,        \* history: <<kind, id>> of the queued items handed to the Brain
    brain_call,          \* history: the Brain call in progress, <<>> when none:
                         \*   <<kind, id, gate, t, previous gated call, gate timestamp before>>
    last_gated_call,     \* history: start of the last Brain call of a gated kind (-1: none)
    gate_last,           \* history: the gate call of the last step of the loop, <<>> when
                         \*   none: <<t, timestamp before, after, admitted, previous admission,
                         \*     first call>>
    last_admit,          \* history: time of the last admission of the gate (-1: none)
    gate_used,           \* history: _can_make_brain_decision has been called
    gate_dropped,        \* history: ids of the chat messages the closed gate
                         \*   made _process_chat_message return on (line 765)
    iter_served,         \* history: the item (<<kind, id>>) the current iteration
                         \* of _main_loop took from a queue, <<>> if none
    last_return,         \* history: <<item, API outcome>> of the Brain call that
                         \* the step just taken completed, <<>> otherwise
    last_cmd_source,     \* history: the item (<<kind, id>>) for which the step
                         \*   just taken enqueued a command (<<>>: none)
    both_pending,        \* history: the pairs <<event, chat message>> that were
                         \*   both queued at the start of an iteration, kept
                         \*   while the chat message is in the loop
    \* ---- StateManager (state_machine/state_manager.py)
    state_history,       \* StateManager.state_history: <<time, state>> entries
    state_start_time,    \* StateManager.state_start_time
    wall_clock,          \* what datetime.now() returns
    sm_request,          \* history: the transition_to call just made, <<>> if none
    sm_distinct,         \* history: requests whose target differed from the state
    callbacks_fired,     \* history: calls of a transition callback made by
                         \*   transition_to
    sm_decision,         \* history: the last call of update_state_from_decision,
                         \*   <<decision type, state before, log length before>>
    \* ---- a caller of _can_make_brain_decision at a fixed cadence
    gate_clock,          \* the loop clock at the caller's next request
    gate_n,              \* history: requests made
    gate_admitted,       \* history: requests admitted
    \* ---- AvatarAISystem._pokemon_game_loop (main.py)
    sim_running,         \* self.running and self.pokemon_enabled
    rl_agent,            \* self.rl_agent: "none", "rl" (has env) or "simple"
    mode,                \* ManualController.mode: "AI" or "MANUAL"
    frame_count,
    last_action_frame,
    last_vision_frame,
    pending_action_future,   \* <<>> (None), <<"pending">>, <<"done", action>>, <<"failed">>
    current_button,      \* 0 (None) or the action index of the held button
    button_frames_remaining,
    iterations,          \* history: iterations of the loop body completed
    emu_ticks,           \* history: frames the loop ticked the emulator
    outstanding,         \* history: decisions dispatched and not yet consumed
    had_sim_error,       \* history: an iteration ended in the except branch
    is_manual_mode,      \* the local of line 439, as the last iteration read it
    dispatch_mode,       \* history: ManualController.mode at the moment the last
                         \*   iteration started a decision ("none": it started none)
    \* ---- AvatarAISystem._analyze_vision_async (main.py)
    cached_vision_analysis, \* the dict of line 403: 0 is {}, n the analysis of
                         \*   the frame task n captured
    vision_created,      \* history: _analyze_vision_async tasks created
    vision_inflight,     \* the tasks awaiting analyze_frame in the worker pool
    vision_last,         \* history: how the last task ended and the cache it found
    \* ---- ManualController (game_layer/manual_controller.py)
    pressed_keys,        \* self.pressed_keys, the game buttons in it
    emu_thread           \* history: the thread that made the last call of
                         \*   pyboy.tick / button / button_release

chanVars == <<is_connected, writer, should_reconnect, send_queue, sender_pc,
              sender_msg, connect_called, connecting, reconnect_sleeping,
              written, lost, next_cmd, enq_down, disc_pc>>

execVars == <<action_cooldown, action_times, exec_pc, exec_n, exec_i, exec_wake,
              exec_calls, send_times, exec_sent>>

mainVars == <<events_queue, game_events_queue, chat_queue, main_pc, main_item,
              current_time, main_wake, last_brain_decision_time,
              last_autonomous_decision, current_state, pokemon_enabled,
              disable_brain_while_gaming, next_event, next_game, next_chat,
              arrived_since_poll, polled_empty, brain_called, brain_call,
              last_gated_call, gate_last, last_admit, last_cmd_source, both_pending,
              gate_used, last_return, iter_served, gate_dropped>>

visVars == <<cached_vision_analysis, vision_created, vision_inflight,
             vision_last>>

kbVars == <<pressed_keys, emu_thread>>

simVars == <<sim_running, rl_agent, mode, frame_count, last_action_frame,
             last_vision_frame, pending_action_future, current_button,
             button_frames_remaining, iterations, emu_ticks, outstanding,
             had_sim_error, is_manual_mode, dispatch_mode, visVars, kbVars>>

gateVars == <<gate_clock, gate_n, gate_admitted>>
smVars == <<state_history, state_start_time, wall_clock, sm_request, sm_distinct,
            callbacks_fired, sm_decision>>

vars == <<chanVars, now, execVars, mainVars, simVars, gateVars, smVars>>

\* ------------------------------------------------------------------ bounds
\* Number of commands the producers enqueue in a run of the channel.
MaxCmds == 3
\* The clock runs from 0 to MaxTime ticks.
MaxTime == 5
\* Executor: the rate cap N (config rate_limits.actions_per_sec), the length
\* of 1/N second in ticks, the longest action list, the number of calls and
\* the largest cooldown (in ticks) of a run.
max_actions_per_sec == 2
TicksPerInterval == 2
MaxActions == 3
MaxCalls == 2
MaxCooldown == 1
\* Main loop: the arrivals of a run, and the gate's interval
\* 1 / rate_limits.brain_decisions_per_sec in ticks (a tick of the main
\* loop's clock is one second).
MaxEvents == 1
MaxGameEvents == 1
MaxChats == 1
HalfInterval == 1
brain_decision_interval == 2 * HalfInterval
\* StateManager: the transition requests of a run and the largest reading of
\* the wall clock.
MaxTransitions == 3
MaxWall == 3
\* Gate cadence: the largest clock value of a first request and the number
\* of requests of a run.
MaxStart == 9
MaxRequests == 10
\* Simulation loop: the frames of a run.
MaxFrames == 30

\* ------------------------------------------------------------- UnityClient
\* asyncio.Queue() is built without a maxsize: maxsize = 0, "infinite".
maxsize == 0

\* asyncio.Queue.full(): never full when maxsize <= 0.
Full(q) == maxsize > 0 /\ Len(q) >= maxsize

\* UnityClient._queue_message: put_nowait; on QueueFull drop the oldest
\* and admit the new message.
QueueMessage(q, m) ==
    IF ~Full(q) THEN Append(q, m)
    ELSE IF Len(q) > 0 THEN Append(Tail(q), m) ELSE q

InitChannel ==
    /\ is_connected = FALSE
    /\ writer = FALSE
    /\ should_reconnect = TRUE
    /\ send_queue = <<>>
    /\ sender_pc = "none"
    /\ sender_msg = 0
    /\ connect_called = FALSE
    /\ connecting = 0
    /\ reconnect_sleeping = 0
    /\ written = <<>>
    /\ lost = {}
    /\ next_cmd = 1
    /\ enq_down = {}
    /\ disc_pc = "none"

QueueMessageWaits_ForSender(q, connected) == ~connected /\ Len(q) > 0

\* Whether a call of _queue_message has to wait before it returns: lines
\* 154-164 hold no await, put_nowait and get_nowait return or raise at once,
\* and send_action / send_say / send_emotion await nothing else.
QueueMessageWaits(q, connected) == FALSE

\* A producer (send_action / send_say / send_emotion) enqueues one command.
Enqueue ==
    /\ next_cmd <= MaxCmds
    /\ ~QueueMessageWaits(send_queue, is_connected)
    /\ send_queue' = QueueMessage(send_queue, next_cmd)
    /\ next_cmd' = next_cmd + 1
    /\ enq_down' = IF is_connected THEN enq_down ELSE enq_down \cup {next_cmd}
    /\ UNCHANGED <<is_connected, writer, should_reconnect, sender_pc, sender_msg,
                   connect_called, connecting, reconnect_sleeping, written, lost>>
    /\ UNCHANGED <<disc_pc, now, execVars, mainVars, simVars, gateVars, smVars>>

\* AvatarAISystem.start calls connect() once; connect returns at once when
\* already connected, otherwise it awaits open_connection.
CallConnect ==
    /\ ~connect_called
    /\ connect_called' = TRUE
    /\ connecting' = IF is_connected THEN connecting ELSE connecting + 1
    /\ UNCHANGED <<is_connected, writer, should_reconnect, send_queue, sender_pc,
                   sender_msg, reconnect_sleeping, written, lost, next_cmd, enq_down>>
    /\ UNCHANGED <<disc_pc, now, execVars, mainVars, simVars, gateVars, smVars>>

\* connect(): open_connection returned; the sender task is created when
\* there is none (or it is done).
ConnectSucceed ==
    /\ connecting > 0
    /\ connecting' = connecting - 1
    /\ is_connected' = TRUE
    /\ writer' = TRUE
    /\ sender_pc' = IF sender_pc \in {"none", "done"} THEN "get" ELSE sender_pc
    /\ UNCHANGED <<should_reconnect, send_queue, sender_msg, connect_called,
                   reconnect_sleeping, written, lost, next_cmd, enq_down>>
    /\ UNCHANGED <<disc_pc, now, execVars, mainVars, simVars, gateVars, smVars>>

\* connect(): open_connection raised; a reconnect is scheduled.
ConnectFail ==
    /\ connecting > 0
    /\ connecting' = connecting - 1
    /\ is_connected' = FALSE
    /\ reconnect_sleeping' =
          IF should_reconnect THEN reconnect_sleeping + 1 ELSE reconnect_sleeping
    /\ UNCHANGED <<writer, should_reconnect, send_queue, sender_pc, sender_msg,
                   connect_called, written, lost, next_cmd, enq_down>>
    /\ UNCHANGED <<disc_pc, now, execVars, mainVars, simVars, gateVars, smVars>>

ShouldRetry_Never(should, connected) == FALSE

\* Line 190: after its sleep the reconnect task calls connect() unless the
\* channel was shut down or is connected.
ShouldRetry(should, connected) == should /\ ~connected

\* _schedule_reconnect after its sleep(reconnect_delay).
ReconnectWake ==
    /\ reconnect_sleeping > 0
    /\ reconnect_sleeping' = reconnect_sleeping - 1
    /\ connecting' =
          IF ShouldRetry(should_reconnect, is_connected) THEN connecting + 1
                                                         ELSE connecting
    /\ UNCHANGED <<is_connected, writer, should_reconnect, send_queue, sender_pc,
                   sender_msg, connect_called, written, lost, next_cmd, enq_down>>
    /\ UNCHANGED <<disc_pc, now, execVars, mainVars, simVars, gateVars, smVars>>

CanTransmit_Always(connected, w) == TRUE

\* Line 75: the sender transmits only with the connection up and a writer.
CanTransmit(connected, w) == connected /\ w

\* _sender_loop, connected branch: queue.get() returned a message, the
\* connection is up: writer.write(data), then the loop awaits drain().
SenderWrite ==
    /\ sender_pc = "get"
    /\ Len(send_queue) > 0
    /\ CanTransmit(is_connected, writer)
    /\ sender_msg' = Head(send_queue)
    /\ send_queue' = Tail(send_queue)
    /\ written' = Append(written, Head(send_queue))
    /\ sender_pc' = "drain"
    /\ UNCHANGED <<is_connected, writer, should_reconnect, connect_called,
                   connecting, reconnect_sleeping, lost, next_cmd, enq_down>>
    /\ UNCHANGED <<disc_pc, now, execVars, mainVars, simVars, gateVars, smVars>>

\* drain() returned: the loop goes back to queue.get().
SenderDrainOk ==
    /\ sender_pc = "drain"
    /\ sender_msg' = 0
    /\ sender_pc' = "get"
    /\ UNCHANGED <<is_connected, writer, should_reconnect, send_queue,
                   connect_called, connecting, reconnect_sleeping, written, lost,
                   next_cmd, enq_down>>
    /\ UNCHANGED <<disc_pc, now, execVars, mainVars, simVars, gateVars, smVars>>

\* Mutant of FailedMessageQueue: the failed message is put back (at-least-once).
FailedMessageQueue_Requeue(q, m) == Append(q, m)

\* The except branch of the send (lines 81-84): where the message goes
\* when the write or the drain raised.  The code drops it.
FailedMessageQueue(q, m) == q

\* drain() raised: is_connected = False, then the loop awaits _cleanup().
SenderDrainFail ==
    /\ sender_pc = "drain"
    /\ is_connected' = FALSE
    /\ lost' = lost \cup {<<sender_msg, Len(written)>>}
    /\ send_queue' = FailedMessageQueue(send_queue, sender_msg)
    /\ sender_msg' = 0
    /\ sender_pc' = "cleanup"
    /\ UNCHANGED <<writer, should_reconnect, connect_called, connecting,
                   reconnect_sleeping, written, next_cmd, enq_down>>
    /\ UNCHANGED <<disc_pc, now, execVars, mainVars, simVars, gateVars, smVars>>

\* _prepare_message_data or writer.write raised: nothing was written.
SenderWriteFail ==
    /\ sender_pc = "get"
    /\ Len(send_queue) > 0
    /\ CanTransmit(is_connected, writer)
    /\ is_connected' = FALSE
    /\ lost' = lost \cup {<<Head(send_queue), Len(written)>>}
    /\ send_queue' = FailedMessageQueue(Tail(send_queue), Head(send_queue))
    /\ sender_msg' = 0
    /\ sender_pc' = "cleanup"
    /\ UNCHANGED <<writer, should_reconnect, connect_called, connecting,
                   reconnect_sleeping, written, next_cmd, enq_down>>
    /\ UNCHANGED <<disc_pc, now, execVars, mainVars, simVars, gateVars, smVars>>

\* _cleanup() returned (writer = None), then one reconnect is scheduled.
SenderCleanupDone ==
    /\ sender_pc = "cleanup"
    /\ writer' = FALSE
    /\ reconnect_sleeping' =
          IF should_reconnect THEN reconnect_sleeping + 1 ELSE reconnect_sleeping
    /\ sender_pc' = "get"
    /\ UNCHANGED <<is_connected, should_reconnect, send_queue, sender_msg,
                   connect_called, connecting, written, lost, next_cmd, enq_down>>
    /\ UNCHANGED <<disc_pc, now, execVars, mainVars, simVars, gateVars, smVars>>

PutBack_Drop(q) == Tail(q)

\* Lines 87-89: the message the get() returned goes back behind the others.
PutBack(q) == Append(Tail(q), Head(q))

\* _sender_loop, else branch: the connection is down, the message is put
\* back at the tail of the queue, then the loop sleeps 0.1 s.
SenderPutBack ==
    /\ sender_pc = "get"
    /\ Len(send_queue) > 0
    /\ ~CanTransmit(is_connected, writer)
    /\ send_queue' = PutBack(send_queue)
    /\ sender_pc' = "backoff"
    /\ UNCHANGED <<is_connected, writer, should_reconnect, sender_msg,
                   connect_called, connecting, reconnect_sleeping, written, lost,
                   next_cmd, enq_down>>
    /\ UNCHANGED <<disc_pc, now, execVars, mainVars, simVars, gateVars, smVars>>

\* The sleep(0.1) after a put-back is over.
SenderBackoffDone ==
    /\ sender_pc = "backoff"
    /\ sender_pc' = "get"
    /\ UNCHANGED <<is_connected, writer, should_reconnect, send_queue, sender_msg,
                   connect_called, connecting, reconnect_sleeping, written, lost,
                   next_cmd, enq_down>>
    /\ UNCHANGED <<disc_pc, now, execVars, mainVars, simVars, gateVars, smVars>>

\* disconnect(), lines 195-204: should_reconnect is cleared and the sender
\* task is cancelled and awaited: the CancelledError thrown at the await the
\* task stands at ends its loop (line 92-93).  The reconnect tasks are not
\* touched: no handle of them is kept.
DisconnectCall ==
    /\ disc_pc = "none"
    /\ connect_called
    /\ should_reconnect' = FALSE
    /\ sender_pc' = IF sender_pc = "none" THEN "none" ELSE "done"
    /\ sender_msg' = 0
    /\ disc_pc' = "cleanup"
    /\ UNCHANGED <<is_connected, writer, send_queue, connect_called, connecting,
                   reconnect_sleeping, written, lost, next_cmd, enq_down>>
    /\ UNCHANGED <<now, execVars, mainVars, simVars, gateVars, smVars>>

\* disconnect(), lines 206-208: _cleanup() returned (writer = None), then
\* is_connected = False.
DisconnectDone ==
    /\ disc_pc = "cleanup"
    /\ writer' = FALSE
    /\ is_connected' = FALSE
    /\ disc_pc' = "done"
    /\ UNCHANGED <<should_reconnect, send_queue, sender_pc, sender_msg,
                   connect_called, connecting, reconnect_sleeping, written, lost,
                   next_cmd, enq_down>>
    /\ UNCHANGED <<now, execVars, mainVars, simVars, gateVars, smVars>>

\* _sender_loop, line 66: the while condition is false, the loop ends.
SenderExit ==
    /\ sender_pc = "get"
    /\ ~(should_reconnect \/ is_connected)
    /\ sender_pc' = "done"
    /\ UNCHANGED <<is_connected, writer, should_reconnect, send_queue, sender_msg,
                   connect_called, connecting, reconnect_sleeping, written, lost,
                   next_cmd, enq_down>>
    /\ UNCHANGED <<disc_pc, now, execVars, mainVars, simVars, gateVars, smVars>>

\* ------------------------------------------------------------------- clock
\* Time passes; a sleeping coroutine wakes no earlier than its wake time.
Tick ==
    /\ now < MaxTime
    /\ now' = now + 1
    /\ UNCHANGED <<chanVars, execVars, mainVars, simVars, gateVars, smVars>>

\* ---------------------------------------------------------------- Executor
\* One second, in ticks.
OneSecond == max_actions_per_sec * TicksPerInterval

\* Executor.__init__: min_interval = 1.0 / max_actions_per_sec.
min_interval == IF max_actions_per_sec > 0 THEN TicksPerInterval ELSE 0

\* Executor._check_rate_limit at time t.
CheckRateLimit(times, t) ==
    IF times = <<>> THEN TRUE
    ELSE LET recent(x) == t - x <= OneSecond
         IN  Len(SelectSeq(times, recent)) < max_actions_per_sec

\* execute_actions, lines 63-69: append now and drop the old timestamps.
RecordAction(times, t) ==
    LET keep(x) == x > t - OneSecond
    IN  SelectSeq(Append(times, t), keep)

InitExec(cooldown) ==
    /\ action_cooldown = cooldown
    /\ action_times = <<>>
    /\ exec_pc = "idle"
    /\ exec_n = 0
    /\ exec_i = 0
    /\ exec_wake = 0
    /\ exec_calls = 0
    /\ send_times = <<>>
    /\ exec_sent = <<>>

\* execute_actions(actions) is called with a list of L actions; an empty
\* list returns at once.
ExecCall ==
    /\ exec_pc = "idle"
    /\ exec_calls < MaxCalls
    /\ \E L \in 0..MaxActions :
          /\ exec_n' = L
          /\ exec_i' = IF L = 0 THEN 0 ELSE 1
          /\ exec_pc' = IF L = 0 THEN "idle" ELSE "check"
    /\ exec_calls' = exec_calls + 1
    /\ exec_sent' = <<>>
    /\ UNCHANGED <<chanVars, now, action_cooldown, action_times, exec_wake,
                   send_times>>
    /\ UNCHANGED <<mainVars, simVars, gateVars, smVars>>

\* Where the for loop goes after the rate check of an action: straight to
\* the send, or to one sleep(min_interval) and then to the send.
AfterCheck(ok) == IF ok THEN "send" ELSE "rate_sleep"

\* Lines 55-57: the rate check of the current action.
ExecCheck ==
    /\ exec_pc = "check"
    /\ exec_pc' = AfterCheck(CheckRateLimit(action_times, now))
    /\ exec_wake' = IF CheckRateLimit(action_times, now) THEN exec_wake
                                                          ELSE now + min_interval
    /\ UNCHANGED <<chanVars, now, action_cooldown, action_times, exec_n, exec_i,
                   exec_calls, send_times, exec_sent>>
    /\ UNCHANGED <<mainVars, simVars, gateVars, smVars>>

\* The for loop moves to the next action, or the call returns.
ExecAdvance(i, n) == IF i < n THEN <<i + 1, "check">> ELSE <<0, "idle">>

\* An executor that gives up the action that found the window saturated.
AfterRateSleep_Drop(i, n) == ExecAdvance(i, n)

\* Lines 57-60: after the sleep of a saturated window the loop falls through
\* to the send of the same action.
AfterRateSleep(i, n) == <<i, "send">>

\* The sleep(min_interval) of a saturated window is over; the action is
\* sent without another check.
ExecRateWake ==
    /\ exec_pc = "rate_sleep"
    /\ now >= exec_wake
    /\ exec_i' = AfterRateSleep(exec_i, exec_n)[1]
    /\ exec_pc' = AfterRateSleep(exec_i, exec_n)[2]
    /\ UNCHANGED <<chanVars, now, action_cooldown, action_times, exec_n,
                   exec_wake, exec_calls, send_times, exec_sent>>
    /\ UNCHANGED <<mainVars, simVars, gateVars, smVars>>

\* Lines 60-73: send_action, record the timestamp, prune, then the cooldown.
ExecSend ==
    /\ exec_pc = "send"
    /\ send_queue' = QueueMessage(send_queue, next_cmd)
    /\ next_cmd' = next_cmd + 1
    /\ enq_down' = IF is_connected THEN enq_down ELSE enq_down \cup {next_cmd}
    /\ action_times' = RecordAction(action_times, now)
    /\ send_times' = Append(send_times, now)
    /\ exec_sent' = Append(exec_sent, <<exec_i, next_cmd>>)
    /\ IF action_cooldown > 0
          THEN /\ exec_pc' = "cooldown"
               /\ exec_wake' = now + action_cooldown
               /\ UNCHANGED exec_i
          ELSE /\ exec_i' = ExecAdvance(exec_i, exec_n)[1]
               /\ exec_pc' = ExecAdvance(exec_i, exec_n)[2]
               /\ UNCHANGED exec_wake
    /\ UNCHANGED <<is_connected, writer, should_reconnect, sender_pc, sender_msg,
                   connect_called, connecting, reconnect_sleeping, written, lost,
                   disc_pc, now, action_cooldown, exec_n, exec_calls>>
    /\ UNCHANGED <<mainVars, simVars, gateVars, smVars>>

\* The sleep(action_cooldown) after an action is over.
ExecCooldownWake ==
    /\ exec_pc = "cooldown"
    /\ now >= exec_wake
    /\ exec_i' = ExecAdvance(exec_i, exec_n)[1]
    /\ exec_pc' = ExecAdvance(exec_i, exec_n)[2]
    /\ UNCHANGED <<chanVars, now, action_cooldown, action_times, exec_n,
                   exec_wake, exec_calls, send_times, exec_sent>>
    /\ UNCHANGED <<mainVars, simVars, gateVars, smVars>>

NextExec ==
    \/ Tick
    \/ ExecCall
    \/ ExecCheck
    \/ ExecRateWake
    \/ ExecSend
    \/ ExecCooldownWake

\* ------------------------------------------- AvatarAISystem: the main loop
\* _main_loop: autonomous_decision_interval = 5.0 (seconds).
autonomous_decision_interval == 5

\* _main_loop: the sleep(1.0) of the except branch.
ErrorBackoff == 1

\* _can_make_brain_decision: the test, at loop time t.
CanMakeBrainDecision(t, last) == t - last >= brain_decision_interval

\* Mutant of GateAfter: the timestamp advances on a rejected request too.
GateAfter_AlwaysAdvance(t, last) == t

\* _can_make_brain_decision: last_brain_decision_time after the call.
GateAfter(t, last) == IF CanMakeBrainDecision(t, last) THEN t ELSE last

\* Mutants of Gated: the gate put on every path, and on none.
Gated_All(kind) == TRUE
Gated_None(kind) == FALSE

\* Which handlers consult the gate before calling the Brain:
\* _process_chat_message and _make_autonomous_decision do,
\* _process_twitch_event and _process_game_event do not.
Gated(kind) == kind \in {"chat", "auto"}

\* StateManager.update_state_from_decision.
UpdateStateFromDecision(st, d) ==
    CASE d = "GOAL" -> "PLAYING"
      [] d = "SAY"  -> "TALKING"
      [] d = "IDLE" -> "IDLE"
      [] OTHER      -> st

\* What the Brain returns: process_event and process_game_event replace
\* IDLE by a fallback SAY.
\* What a call of the AI API comes to: a well-formed decision of one of
\* the three types, or "failed" (an exception or a timeout of both clients, a
\* response that is not JSON, lacks "type" or names an unknown type).
ApiResults == {"GOAL", "SAY", "IDLE", "failed"}

\* Brain._call_ai_api / _call_openai: every failure is caught and returned as
\* an IDLE decision.
CallAiApi(r) == IF r = "failed" THEN "IDLE" ELSE r

BrainDecision_NoFallback(kind, r) == CallAiApi(r)

\* What the handler of an item of this kind receives: process_chat_message
\* and make_decision hand _call_ai_api's decision over, process_event and
\* process_game_event replace an IDLE or missing decision by a canned SAY.
BrainDecision(kind, r) ==
    IF kind \in {"event", "game"} /\ CallAiApi(r) = "IDLE" THEN "SAY" ELSE CallAiApi(r)

Decisions(kind) == {BrainDecision(kind, r) : r \in ApiResults}

\* AvatarAISystem.__init__ line 135 rebinds self.executor to a
\* ThreadPoolExecutor, which has no execute_actions: a GOAL decision
\* raises AttributeError in _execute_decision.
ExecuteDecisionRaises(d) == d = "GOAL"

\* A _process_game_event without the early return of the flag.
BrainSkipsGameEvents_Never(flag) == FALSE

\* _process_game_event, lines 693-696: with disable_brain_while_gaming
\* (default true) the handler returns before it calls the Brain.
BrainSkipsGameEvents(flag) == flag

\* Mutant of IterationStart: the chat queue is polled first.
IterationStart_ChatFirst == "poll_chat"

\* Where an iteration of _main_loop starts.
IterationStart == "poll_events"

InitMain(pokemon, disable_brain) ==
    /\ events_queue = <<>>
    /\ game_events_queue = <<>>
    /\ chat_queue = <<>>
    /\ main_pc = IterationStart
    /\ main_item = <<"none", 0>>
    /\ current_time = 0
    /\ main_wake = 0
    /\ last_brain_decision_time = 0
    /\ last_autonomous_decision = 0
    /\ current_state = "IDLE"
    /\ pokemon_enabled = pokemon
    /\ disable_brain_while_gaming = disable_brain
    /\ next_event = 1
    /\ next_game = 1
    /\ next_chat = 1
    /\ arrived_since_poll = {}
    /\ polled_empty = FALSE
    /\ brain_called = {}
    /\ brain_call = <<>>
    /\ last_gated_call = -1
    /\ gate_last = <<>>
    /\ last_admit = -1
    /\ last_cmd_source = <<>>
    /\ last_return = <<>>
    /\ iter_served = <<>>
    /\ gate_dropped = {}
    /\ gate_used = FALSE
    /\ both_pending = {}

\* The start of an iteration: the platform events and the chat messages
\* queued at that moment are noted pairwise; within an iteration, the item
\* it took from a queue is noted.
NoteIterationStart ==
  /\ iter_served' =
        IF main_pc' = IterationStart THEN <<>>
        ELSE IF Len(events_queue') < Len(events_queue)
          THEN <<"event", Head(events_queue)>>
        ELSE IF Len(game_events_queue') < Len(game_events_queue)
          THEN <<"game", Head(game_events_queue)>>
        ELSE IF Len(chat_queue') < Len(chat_queue)
          THEN <<"chat", Head(chat_queue)[1]>>
        ELSE iter_served
  /\ gate_dropped' =
        IF /\ main_pc = "poll_chat"
           /\ Len(chat_queue') < Len(chat_queue)
           /\ gate_last' # <<>>
           /\ ~gate_last'[4]
          THEN gate_dropped \cup {Head(chat_queue)[1]}
          ELSE gate_dropped
  /\ both_pending' =
        {pr \in both_pending :
            \/ main_item = <<"chat", pr[2]>>
            \/ \E j \in 1..Len(chat_queue) : chat_queue[j][1] = pr[2]} \cup
        (IF main_pc' = IterationStart
           THEN {<<events_queue'[i], chat_queue'[j][1]>> :
                    i \in 1..Len(events_queue'), j \in 1..Len(chat_queue')}
           ELSE {})

\* The variables no arrival changes.
loopVars == <<polled_empty, main_pc, main_item, current_time, main_wake,
              last_brain_decision_time, last_autonomous_decision, current_state,
              pokemon_enabled, disable_brain_while_gaming, brain_called,
              brain_call, last_gated_call, gate_last, last_admit, gate_used>>

\* _on_twitch_event: the event is put in events_queue.
ArriveEvent ==
    /\ next_event <= MaxEvents
    /\ events_queue' = Append(events_queue, next_event)
    /\ arrived_since_poll' = arrived_since_poll \cup {next_event}
    /\ next_event' = next_event + 1
    /\ UNCHANGED <<chanVars, now, execVars, loopVars, game_events_queue,
                   chat_queue, next_game, next_chat>>
    /\ UNCHANGED <<simVars, gateVars, smVars>>
    /\ last_return' = <<>>
    /\ NoteIterationStart
    /\ last_cmd_source' = <<>>

\* _on_game_event (EventDetector callback; only with the Pokemon system).
ArriveGameEvent ==
    /\ pokemon_enabled
    /\ next_game <= MaxGameEvents
    /\ game_events_queue' = Append(game_events_queue, next_game)
    /\ next_game' = next_game + 1
    /\ UNCHANGED <<chanVars, now, execVars, loopVars, events_queue, chat_queue,
                   next_event, next_chat, arrived_since_poll>>
    /\ UNCHANGED <<simVars, gateVars, smVars>>
    /\ last_return' = <<>>
    /\ NoteIterationStart
    /\ last_cmd_source' = <<>>

\* _on_chat_message: a text message or, when the Pokemon system and its
\* ManualController exist, a manual-control command.
ArriveChat ==
    /\ next_chat <= MaxChats
    /\ \E class \in IF pokemon_enabled THEN {"text", "command"} ELSE {"text"} :
          chat_queue' = Append(chat_queue, <<next_chat, class>>)
    /\ next_chat' = next_chat + 1
    /\ UNCHANGED <<chanVars, now, execVars, loopVars, events_queue,
                   game_events_queue, next_event, next_game, arrived_since_poll>>
    /\ UNCHANGED <<simVars, gateVars, smVars>>
    /\ last_return' = <<>>
    /\ NoteIterationStart
    /\ last_cmd_source' = <<>>

\* UnityClient.send_say called from the main loop: one command enqueued for
\* the item src.
SendSay(src) ==
    /\ send_queue' = QueueMessage(send_queue, next_cmd)
    /\ next_cmd' = next_cmd + 1
    /\ enq_down' = IF is_connected THEN enq_down ELSE enq_down \cup {next_cmd}
    /\ UNCHANGED <<is_connected, writer, should_reconnect, sender_pc, sender_msg,
                   connect_called, connecting, reconnect_sleeping, written, lost,
                   disc_pc>>
    /\ last_cmd_source' = src

\* The status SAY of a manual-control command followed by the SAY of the
\* task its callback created (_send_control_mode_notification after a
\* change of mode, send_say(msg) after a save or load): the handler's
\* send_say awaits nothing, so the status is enqueued first and the task
\* runs at the loop's next suspension.
SendStatusAndNotification(src) ==
    /\ send_queue' = QueueMessage(QueueMessage(send_queue, next_cmd), next_cmd + 1)
    /\ next_cmd' = next_cmd + 2
    /\ enq_down' = IF is_connected THEN enq_down
                                   ELSE enq_down \cup {next_cmd, next_cmd + 1}
    /\ UNCHANGED <<is_connected, writer, should_reconnect, sender_pc, sender_msg,
                   connect_called, connecting, reconnect_sleeping, written, lost,
                   disc_pc>>
    /\ last_cmd_source' = src

\* A handler that takes no message for a manual-control command.
IsControlCommand_Never(pokemon, class) == FALSE

\* Line 755: manual_controller exists (the Pokemon system is enabled) and
\* process_chat_command returned True.
IsControlCommand(pokemon, class) == pokemon /\ class = "command"

\* A handler that goes to the Brain without set_thinking().
SetThinking_Skip(st) == st

\* StateManager.set_thinking: can_transition_to returns True for every
\* state, transition_to leaves current_state at THINKING.
SetThinking(st) == "THINKING"

\* set_thinking() and the start of the awaited Brain call of a handler.
BrainCall(kind, id, gate) ==
    /\ current_state' = SetThinking(current_state)
    /\ main_item' = <<kind, id>>
    /\ main_pc' = "brain"
    /\ brain_called' = IF id > 0 THEN brain_called \cup {<<kind, id>>}
                                 ELSE brain_called
    /\ brain_call' = <<kind, id, gate, now, last_gated_call,
                       last_brain_decision_time>>
    /\ last_gated_call' = IF kind \in {"chat", "auto"} THEN now
                                                       ELSE last_gated_call

\* A handler that calls set_thinking() before it consults the gate.
NoBrainCall_Thinking(pc) ==
    /\ main_pc' = pc
    /\ brain_call' = <<>>
    /\ current_state' = "THINKING"
    /\ UNCHANGED <<main_item, brain_called, last_gated_call>>

\* The handler returns without calling the Brain; the loop goes on at pc.
NoBrainCall(pc) ==
    /\ main_pc' = pc
    /\ brain_call' = <<>>
    /\ UNCHANGED <<current_state, main_item, brain_called, last_gated_call>>

\* A step of the loop that does not call _can_make_brain_decision.
NoGate ==
    /\ gate_last' = <<>>
    /\ UNCHANGED <<last_brain_decision_time, last_admit, gate_used>>

\* A handler's way to the Brain: through _can_make_brain_decision for the
\* gated kinds, straight to the call for the others.
Enter(kind, id, skip_pc) ==
    IF Gated(kind)
      THEN /\ last_brain_decision_time' = GateAfter(now, last_brain_decision_time)
           /\ gate_last' = <<now, last_brain_decision_time,
                             GateAfter(now, last_brain_decision_time),
                             CanMakeBrainDecision(now, last_brain_decision_time),
                             last_admit, ~gate_used>>
           /\ gate_used' = TRUE
           /\ last_admit' =
                 IF CanMakeBrainDecision(now, last_brain_decision_time)
                   THEN now ELSE last_admit
           /\ IF CanMakeBrainDecision(now, last_brain_decision_time)
                THEN BrainCall(kind, id, "admitted")
                ELSE NoBrainCall(skip_pc)
      ELSE /\ NoGate
           /\ BrainCall(kind, id, "bypass")

\* PRIORIDADE 1: events_queue.get() returned an event;
\* _process_twitch_event runs up to its await of Brain.process_event.
MainGetEvent ==
    /\ main_pc = "poll_events"
    /\ events_queue # <<>>
    /\ events_queue' = Tail(events_queue)
    /\ arrived_since_poll' = arrived_since_poll \ {Head(events_queue)}
    /\ polled_empty' = FALSE
    /\ Enter("event", Head(events_queue), IterationStart)
    /\ UNCHANGED <<chanVars, now, execVars, game_events_queue, chat_queue,
                   current_time, main_wake, last_autonomous_decision,
                   pokemon_enabled, disable_brain_while_gaming, next_event,
                   next_game, next_chat>>
    /\ UNCHANGED <<simVars, gateVars, smVars>>
    /\ last_return' = <<>>
    /\ NoteIterationStart
    /\ last_cmd_source' = <<>>

\* A poll timed out on an empty queue: the loop goes to the next source.
PollTimeout(pc) ==
    /\ main_pc' = pc
    /\ brain_call' = <<>>
    /\ NoGate
    /\ UNCHANGED <<chanVars, now, execVars, events_queue, game_events_queue,
                   chat_queue, main_item, current_time, main_wake,
                   last_autonomous_decision, current_state, pokemon_enabled,
                   disable_brain_while_gaming, next_event, next_game, next_chat,
                   brain_called, last_gated_call>>
    /\ UNCHANGED <<simVars, gateVars, smVars>>
    /\ last_return' = <<>>
    /\ NoteIterationStart
    /\ last_cmd_source' = <<>>

\* The events poll timed out on an empty queue.
MainEventsTimeout ==
    /\ main_pc = "poll_events"
    /\ events_queue = <<>>
    /\ arrived_since_poll' = {}
    /\ polled_empty' = TRUE
    /\ PollTimeout("poll_game")

\* PRIORIDADE 1.5: a game event was dequeued; _process_game_event returns
\* at once under disable_brain_while_gaming; then the loop continues.
MainGetGameEvent ==
    /\ main_pc = "poll_game"
    /\ game_events_queue # <<>>
    /\ game_events_queue' = Tail(game_events_queue)
    /\ polled_empty' = FALSE
    /\ IF BrainSkipsGameEvents(disable_brain_while_gaming)
         THEN NoBrainCall(IterationStart) /\ NoGate
         ELSE Enter("game", Head(game_events_queue), IterationStart)
    /\ UNCHANGED <<chanVars, now, execVars, events_queue, chat_queue,
                   current_time, main_wake, last_autonomous_decision,
                   pokemon_enabled, disable_brain_while_gaming, next_event,
                   next_game, next_chat, arrived_since_poll>>
    /\ UNCHANGED <<simVars, gateVars, smVars>>
    /\ last_return' = <<>>
    /\ NoteIterationStart
    /\ last_cmd_source' = <<>>

\* The game events poll timed out on an empty queue.
MainGameTimeout ==
    /\ main_pc = "poll_game"
    /\ game_events_queue = <<>>
    /\ UNCHANGED <<arrived_since_poll, polled_empty>>
    /\ PollTimeout("poll_chat")

\* PRIORIDADE 2: a chat message was dequeued and handed to
\* _process_chat_message: a manual-control command is answered with a
\* status SAY, and a command that changed the control mode or saved or
\* loaded the game also by the SAY of its callback (notified); any other
\* message goes to the gate and then to the Brain.
MainGetChat ==
    /\ main_pc = "poll_chat"
    /\ chat_queue # <<>>
    /\ chat_queue' = Tail(chat_queue)
    /\ polled_empty' = FALSE
    /\ IF IsControlCommand(pokemon_enabled, Head(chat_queue)[2])
         THEN /\ \E notified \in BOOLEAN :
                    IF notified
                      THEN SendStatusAndNotification(<<"chat", Head(chat_queue)[1]>>)
                      ELSE SendSay(<<"chat", Head(chat_queue)[1]>>)
              /\ NoBrainCall("autonomous")
              /\ NoGate
         ELSE /\ Enter("chat", Head(chat_queue)[1], "autonomous")
              /\ UNCHANGED chanVars
              /\ last_cmd_source' = <<>>
    /\ UNCHANGED <<now, execVars, events_queue, game_events_queue, current_time,
                   main_wake, last_autonomous_decision, pokemon_enabled,
                   disable_brain_while_gaming, next_event, next_game, next_chat,
                   arrived_since_poll>>
    /\ UNCHANGED <<simVars, gateVars, smVars>>
    /\ last_return' = <<>>
    /\ NoteIterationStart

\* The chat poll timed out on an empty queue.
MainChatTimeout ==
    /\ main_pc = "poll_chat"
    /\ chat_queue = <<>>
    /\ UNCHANGED arrived_since_poll
    /\ polled_empty' = FALSE
    /\ PollTimeout("autonomous")

\* Line 675-676: the autonomous request is due and the queues are empty.
AutonomousDue ==
    /\ now - last_autonomous_decision >= autonomous_decision_interval
    /\ chat_queue = <<>>
    /\ events_queue = <<>>

\* Lines 673-678: the periodic autonomous decision.  current_time is read
\* before _make_autonomous_decision and assigned to
\* last_autonomous_decision after it returned.
MainAutonomous ==
    /\ main_pc = "autonomous"
    /\ IF AutonomousDue /\ ~(pokemon_enabled /\ disable_brain_while_gaming)
         THEN /\ Enter("auto", 0, "sleep")
              /\ IF CanMakeBrainDecision(now, last_brain_decision_time)
                   THEN current_time' = now /\ UNCHANGED last_autonomous_decision
                   ELSE last_autonomous_decision' = now /\ UNCHANGED current_time
         ELSE /\ NoBrainCall("sleep")
              /\ NoGate
              /\ last_autonomous_decision' =
                    IF now - last_autonomous_decision >= autonomous_decision_interval
                      THEN now ELSE last_autonomous_decision
              /\ UNCHANGED current_time
    /\ UNCHANGED <<chanVars, now, execVars, events_queue, game_events_queue,
                   chat_queue, main_wake, pokemon_enabled,
                   disable_brain_while_gaming, next_event, next_game, next_chat,
                   arrived_since_poll, polled_empty>>
    /\ UNCHANGED <<simVars, gateVars, smVars>>
    /\ last_return' = <<>>
    /\ NoteIterationStart
    /\ last_cmd_source' = <<>>

\* Where the loop goes when the handler of an item of this kind returns.
AfterHandler(kind) ==
    CASE kind \in {"event", "game"} -> IterationStart
      [] kind = "chat"              -> "autonomous"
      [] OTHER                      -> "sleep"

\* The Brain returned decision d: update_state_from_decision, then
\* _execute_decision; an exception goes to the loop's except branch.
MainBrainReturn ==
    /\ main_pc = "brain"
    /\ \E r \in ApiResults : \E d \in {BrainDecision(main_item[1], r)} :
          /\ last_return' = <<main_item, r>>
          /\ current_state' = UpdateStateFromDecision(current_state, d)
          /\ IF d = "SAY" THEN SendSay(main_item)
                           ELSE (UNCHANGED chanVars /\ last_cmd_source' = <<>>)
          /\ IF ExecuteDecisionRaises(d)
               THEN /\ main_pc' = "error_sleep"
                    /\ main_wake' = now + ErrorBackoff
                    /\ UNCHANGED last_autonomous_decision
               ELSE /\ main_pc' = AfterHandler(main_item[1])
                    /\ last_autonomous_decision' =
                          IF main_item[1] = "auto" THEN current_time
                                                   ELSE last_autonomous_decision
                    /\ UNCHANGED main_wake
    /\ main_item' = <<"none", 0>>
    /\ current_time' = 0
    /\ brain_call' = <<>>
    /\ NoGate
    /\ UNCHANGED <<now, execVars, events_queue, game_events_queue, chat_queue,
                   pokemon_enabled, disable_brain_while_gaming, next_event,
                   next_game, next_chat, arrived_since_poll, polled_empty,
                   brain_called, last_gated_call>>
    /\ UNCHANGED <<simVars, gateVars, smVars>>
    /\ NoteIterationStart

\* The sleep(0.05) at the end of an iteration is over.
MainSleepDone ==
    /\ main_pc = "sleep"
    /\ UNCHANGED <<arrived_since_poll, polled_empty>>
    /\ PollTimeout(IterationStart)

\* A loop whose try sits outside the while: the first exception ends it.
LoopSurvivesException_Never == FALSE

\* Lines 639-685: the try/except Exception is the body of the while, so
\* the loop goes round again after the except branch.
LoopSurvivesException == TRUE

\* An except branch that puts the state machine back to IDLE.
StateAfterError_Reset(st) == "IDLE"

\* Lines 683-685: the except branch logs and sleeps; it does not touch the
\* StateManager.
StateAfterError(st) == st

\* The sleep(1.0) of the except branch is over.
MainErrorSleepDone ==
    /\ main_pc = "error_sleep"
    /\ LoopSurvivesException
    /\ current_state' = StateAfterError(current_state)
    /\ now >= main_wake
    /\ main_pc' = IterationStart
    /\ main_wake' = 0
    /\ brain_call' = <<>>
    /\ NoGate
    /\ UNCHANGED <<chanVars, now, execVars, events_queue, game_events_queue,
                   chat_queue, main_item, current_time,
                   last_autonomous_decision, pokemon_enabled,
                   disable_brain_while_gaming, next_event, next_game, next_chat,
                   arrived_since_poll, polled_empty, brain_called,
                   last_gated_call>>
    /\ UNCHANGED <<simVars, gateVars, smVars>>
    /\ last_return' = <<>>
    /\ NoteIterationStart
    /\ last_cmd_source' = <<>>

NextMain ==
    \/ Tick
    \/ ArriveEvent
    \/ ArriveGameEvent
    \/ ArriveChat
    \/ MainGetEvent
    \/ MainEventsTimeout
    \/ MainGetGameEvent
    \/ MainGameTimeout
    \/ MainGetChat
    \/ MainChatTimeout
    \/ MainAutonomous
    \/ MainBrainReturn
    \/ MainSleepDone
    \/ MainErrorSleepDone

\* ------------------------------------------------------------ StateManager
\* class State (lines 14-19).
State == {"IDLE", "TALKING", "PLAYING", "THINKING"}

\* Lines 30-32: the log is empty and the state-start clock is the wall
\* clock's reading at construction.
InitStateManager ==
    /\ state_history = <<>>
    /\ wall_clock = 0
    /\ state_start_time = 0
    /\ sm_request = <<>>
    /\ sm_distinct = 0
    /\ callbacks_fired = 0
    /\ sm_decision = <<>>

AlreadyInState_Never(new_state, cur) == FALSE

\* Line 44: the early return of transition_to.
AlreadyInState(new_state, cur) == new_state = cur

\* Callbacks transition_to calls for an accepted transition: StateManager
\* stores no callback (lines 25-34) and lines 36-59 call nothing but
\* datetime.now, list.append and logger.info.
CallbacksPerTransition == 0

\* transition_to (lines 36-59), one call.  datetime.now() is the naive local
\* wall clock; the call's reads (lines 48, 51, 54) are taken as one reading.
\* sm_request records <<target, state before, log length before, state-start
\* clock before, whether the call went past line 44, duration of line 48>>.
TransitionTo(new_state) ==
    /\ sm_distinct < MaxTransitions
    /\ Len(state_history) < MaxTransitions + 1
    /\ sm_distinct' = IF new_state # current_state THEN sm_distinct + 1 ELSE sm_distinct
    /\ IF AlreadyInState(new_state, current_state)
         THEN /\ sm_request' = <<new_state, current_state, Len(state_history),
                                 state_start_time, FALSE, 0>>
              /\ UNCHANGED <<current_state, state_start_time, state_history,
                             callbacks_fired>>
         ELSE /\ sm_request' = <<new_state, current_state, Len(state_history),
                                 state_start_time, TRUE,
                                 wall_clock - state_start_time>>
              /\ current_state' = new_state
              /\ state_start_time' = wall_clock
              /\ state_history' = Append(state_history, <<wall_clock, new_state>>)
              /\ callbacks_fired' = callbacks_fired + CallbacksPerTransition
    /\ UNCHANGED wall_clock
    /\ UNCHANGED <<events_queue, game_events_queue, chat_queue, main_pc, main_item,
                   current_time, main_wake, last_brain_decision_time,
                   last_autonomous_decision, pokemon_enabled,
                   disable_brain_while_gaming,
                   next_event, next_game, next_chat, arrived_since_poll,
                   polled_empty, brain_called, brain_call, last_gated_call,
                   gate_last, last_admit, last_cmd_source, both_pending,
                   gate_used, last_return, iter_served, gate_dropped>>
    /\ UNCHANGED <<chanVars, now, execVars, simVars, gateVars>>

\* Wall-clock time passes.
WallClockAdvance ==
    /\ wall_clock < MaxWall
    /\ wall_clock' = wall_clock + 1
    /\ sm_request' = <<>>
    /\ sm_decision' = <<>>
    /\ UNCHANGED <<state_history, state_start_time, sm_distinct, callbacks_fired>>
    /\ UNCHANGED <<chanVars, now, execVars, mainVars, simVars, gateVars>>

\* The wall clock is set back: datetime.now() is not monotonic (the end of
\* daylight saving time, an NTP or manual correction).
WallClockSetBack ==
    /\ \E t \in 0..(wall_clock - 1) : wall_clock' = t
    /\ sm_request' = <<>>
    /\ sm_decision' = <<>>
    /\ UNCHANGED <<state_history, state_start_time, sm_distinct, callbacks_fired>>
    /\ UNCHANGED <<chanVars, now, execVars, mainVars, simVars, gateVars>>

\* A can_transition_to that refuses to talk while playing.
CanTransitionTo_NoTalkWhilePlaying(cur, new_state) ==
    ~(cur = "PLAYING" /\ new_state = "TALKING")

\* can_transition_to (lines 61-86): every branch returns True.
CanTransitionTo(cur, new_state) == TRUE

\* The decision types update_state_from_decision is called with: the three
\* it knows and one it does not.
DecisionTypes == {"GOAL", "SAY", "IDLE", "OTHER"}

\* update_state_from_decision (lines 96-111), one call.
UpdateFromDecision ==
    \E d \in DecisionTypes :
        /\ sm_decision' = <<d, current_state, Len(state_history)>>
        /\ IF /\ d \in {"GOAL", "SAY", "IDLE"}
              /\ CanTransitionTo(current_state,
                                 UpdateStateFromDecision(current_state, d))
             THEN TransitionTo(UpdateStateFromDecision(current_state, d))
             ELSE /\ sm_request' = <<>>
                  /\ UNCHANGED <<state_history, state_start_time, wall_clock,
                                 sm_distinct, callbacks_fired>>
                  /\ UNCHANGED <<chanVars, now, execVars, mainVars, simVars,
                                 gateVars>>

NextState ==
    \/ \E new_state \in State : TransitionTo(new_state) /\ sm_decision' = <<>>
    \/ UpdateFromDecision
    \/ WallClockAdvance
    \/ WallClockSetBack

\* --------------------------- _can_make_brain_decision at a fixed cadence
InitGate(start) ==
    /\ gate_clock = start
    /\ gate_n = 0
    /\ gate_admitted = 0

\* One call of _can_make_brain_decision at clock gate_clock; the caller's
\* next request comes half an interval later.
GateRequest ==
    /\ gate_n < MaxRequests
    /\ last_brain_decision_time' = GateAfter(gate_clock, last_brain_decision_time)
    /\ gate_admitted' =
          IF CanMakeBrainDecision(gate_clock, last_brain_decision_time)
            THEN gate_admitted + 1 ELSE gate_admitted
    /\ gate_n' = gate_n + 1
    /\ gate_clock' = gate_clock + HalfInterval
    /\ UNCHANGED <<events_queue, game_events_queue, chat_queue, main_pc, main_item,
                   current_time, main_wake, last_autonomous_decision,
                   current_state, pokemon_enabled, disable_brain_while_gaming,
                   next_event, next_game, next_chat, arrived_since_poll,
                   polled_empty, brain_called, brain_call, last_gated_call,
                   gate_last, last_admit, last_cmd_source, both_pending,
                   gate_used, last_return, iter_served, gate_dropped>>
    /\ UNCHANGED <<chanVars, now, execVars, simVars, smVars>>

NextGate == GateRequest

\* ------------------------------- AvatarAISystem._pokemon_game_loop (main.py)
\* action_interval_frames = 12.
action_interval_frames == 12

\* vision_update_interval = 120.
vision_update_interval == 120

\* button_frames_remaining = 8 when a decided button is applied.
HoldFrames == 8

\* Number of perception tasks the loop creates in a run.
MaxVisionTasks == 4

\* The action indices a policy returns in a run: 0 (no button), two keys
\* of button_map (1: A, 5: UP) and an index that is no key of it.
ActionResults == {0, 1, 5, 9}

\* The keys of button_map.
ButtonMap == 1..8

\* The loop with the tick moved under the control-mode test.
EmuFramesPerIteration_AIOnly(manual) == IF manual THEN 0 ELSE 1

\* Frames the loop ticks the emulator in one iteration: pyboy_client.tick(1),
\* whatever the control mode.
EmuFramesPerIteration(manual) == 1

\* The test of line 470 without its "not is_manual_mode".
DecisionDue_IgnoreMode(manual, pending, fc, laf) ==
    pending = <<>> /\ fc - laf >= action_interval_frames

\* The test of line 470 without its "not pending_action_future".
DecisionDue_IgnorePending(manual, pending, fc, laf) ==
    ~manual /\ fc - laf >= action_interval_frames

\* Line 470: a new decision is due.
DecisionDue(manual, pending, fc, laf) ==
    ~manual /\ pending = <<>> /\ fc - laf >= action_interval_frames

InitSim(agent) ==
    /\ sim_running = TRUE
    /\ rl_agent = agent
    /\ mode = "AI"
    /\ frame_count = 0
    /\ last_action_frame = 0
    /\ last_vision_frame = 0
    /\ pending_action_future = <<>>
    /\ current_button = 0
    /\ button_frames_remaining = 0
    /\ iterations = 0
    /\ emu_ticks = 0
    /\ outstanding = 0
    /\ had_sim_error = FALSE
    /\ is_manual_mode = FALSE
    /\ dispatch_mode = "none"
    /\ cached_vision_analysis = 0
    /\ vision_created = 0
    /\ vision_inflight = {}
    /\ vision_last = <<>>
    /\ pressed_keys = {}
    /\ emu_thread = "none"

\* Lines 420-430: the held-button countdown.  raise is "press" or
\* "release" when that call of the emulator raises.
HoldButton(button, remaining, raise) ==
    IF remaining > 0
      THEN IF button # 0 /\ raise = "press"
             THEN [button |-> button, remaining |-> remaining, exc |-> TRUE]
             ELSE IF remaining - 1 = 0 /\ button # 0
                    THEN IF raise = "release"
                           THEN [button |-> button, remaining |-> 0, exc |-> TRUE]
                           ELSE [button |-> 0, remaining |-> 0, exc |-> FALSE]
                    ELSE [button |-> button, remaining |-> remaining - 1,
                          exc |-> FALSE]
      ELSE [button |-> button, remaining |-> remaining, exc |-> FALSE]

\* The poll of lines 442-467 outside the "if not is_manual_mode" of line 442.
PollDecision_IgnoreMode(manual, pending, h) ==
    IF pending # <<>> /\ pending[1] # "pending"
      THEN IF pending[1] = "done" /\ pending[2] > 0 /\ pending[2] \in ButtonMap
             THEN [pending |-> <<>>, button |-> pending[2],
                   remaining |-> HoldFrames, consumed |-> 1]
             ELSE [pending |-> <<>>, button |-> h.button,
                   remaining |-> h.remaining, consumed |-> 1]
      ELSE [pending |-> pending, button |-> h.button, remaining |-> h.remaining,
            consumed |-> 0]

\* A poll that throws the outstanding handle away in Manual mode.
PollDecision_DropInManual(manual, pending, h) ==
    IF manual
      THEN [pending |-> <<>>, button |-> h.button, remaining |-> h.remaining,
            consumed |-> IF pending = <<>> THEN 0 ELSE 1]
      ELSE PollDecision_IgnoreMode(manual, pending, h)

\* Lines 442-467: a finished decision is consumed and its button applied.
PollDecision(manual, pending, h) ==
    IF ~manual /\ pending # <<>> /\ pending[1] # "pending"
      THEN IF pending[1] = "done" /\ pending[2] > 0 /\ pending[2] \in ButtonMap
             THEN [pending |-> <<>>, button |-> pending[2],
                   remaining |-> HoldFrames, consumed |-> 1]
             ELSE [pending |-> <<>>, button |-> h.button,
                   remaining |-> h.remaining, consumed |-> 1]
      ELSE [pending |-> pending, button |-> h.button, remaining |-> h.remaining,
            consumed |-> 0]

\* Lines 470-495 without the "button_frames_remaining == 0" of line 473.
StartDecision_IgnoreHold(manual, p, fc, laf, raise, outcome) ==
    IF DecisionDue(manual, p.pending, fc, laf)
      THEN IF rl_agent # "none"
             THEN IF rl_agent = "rl"
                    THEN IF raise = "decide"
                           THEN [pending |-> p.pending, laf |-> fc, started |-> 0,
                                 exc |-> TRUE]
                           ELSE [pending |-> <<"pending">>, laf |-> fc,
                                 started |-> 1, exc |-> FALSE]
                    ELSE IF raise = "decide"
                           THEN [pending |-> p.pending, laf |-> fc, started |-> 0,
                                 exc |-> FALSE]
                           ELSE [pending |-> <<"done", outcome>>, laf |-> fc,
                                 started |-> 1, exc |-> FALSE]
             ELSE [pending |-> p.pending, laf |-> fc, started |-> 0, exc |-> FALSE]
      ELSE [pending |-> p.pending, laf |-> laf, started |-> 0, exc |-> FALSE]

\* Lines 470-495: a new decision is started.  raise is "decide" when
\* _get_observation / run_in_executor (RL agent) or predict (SimpleAgent)
\* raises; outcome is the action index a SimpleAgent returns.
StartDecision(manual, p, fc, laf, raise, outcome) ==
    IF DecisionDue(manual, p.pending, fc, laf)
      THEN IF rl_agent # "none" /\ p.remaining = 0
             THEN IF rl_agent = "rl"
                    THEN IF raise = "decide"
                           THEN [pending |-> p.pending, laf |-> fc, started |-> 0,
                                 exc |-> TRUE]
                           ELSE [pending |-> <<"pending">>, laf |-> fc,
                                 started |-> 1, exc |-> FALSE]
                    ELSE IF raise = "decide"
                           THEN [pending |-> p.pending, laf |-> fc, started |-> 0,
                                 exc |-> FALSE]
                           ELSE [pending |-> <<"done", outcome>>, laf |-> fc,
                                 started |-> 1, exc |-> FALSE]
             ELSE [pending |-> p.pending, laf |-> fc, started |-> 0, exc |-> FALSE]
      ELSE [pending |-> p.pending, laf |-> laf, started |-> 0, exc |-> FALSE]

\* ManualController.toggle_mode.
Toggled(m) == IF m = "AI" THEN "MANUAL" ELSE "AI"

\* One iteration of the while loop, from the tick to the frame-timing
\* sleep (or to the sleep of the except branch).  The mode is read once,
\* at line 439; the keyboard listener runs in a thread of its own, so its
\* toggle_mode can fall between that read and the dispatch of line 470
\* (switch).
SimIteration ==
    /\ sim_running
    /\ frame_count < MaxFrames
    /\ \E raise \in {"none", "press", "release", "decide"},
          outcome \in ActionResults, switch \in BOOLEAN :
        LET manual == mode = "MANUAL"
            fc == frame_count + 1
            h  == HoldButton(current_button, button_frames_remaining, raise)
            p  == PollDecision(manual, pending_action_future, h)
            d  == StartDecision(manual, p, fc, last_action_frame, raise, outcome)
        IN  /\ frame_count' = fc
            /\ emu_ticks' = emu_ticks + EmuFramesPerIteration(manual)
            /\ iterations' = iterations + 1
            /\ IF h.exc
                 THEN /\ current_button' = h.button
                      /\ button_frames_remaining' = h.remaining
                      /\ had_sim_error' = TRUE
                      /\ ~switch
                      /\ dispatch_mode' = "none"
                      /\ UNCHANGED <<last_vision_frame, pending_action_future,
                                     last_action_frame, outstanding,
                                     is_manual_mode, mode>>
                 ELSE /\ last_vision_frame' =
                            IF fc - last_vision_frame >= vision_update_interval
                              THEN fc ELSE last_vision_frame
                      /\ current_button' = p.button
                      /\ button_frames_remaining' = p.remaining
                      /\ pending_action_future' = d.pending
                      /\ last_action_frame' = d.laf
                      /\ outstanding' = outstanding - p.consumed + d.started
                      /\ had_sim_error' = (had_sim_error \/ d.exc)
                      /\ is_manual_mode' = manual
                      /\ mode' = IF switch THEN Toggled(mode) ELSE mode
                      /\ dispatch_mode' = IF d.started = 1 THEN mode' ELSE "none"
    /\ UNCHANGED <<chanVars, now, execVars, mainVars, gateVars, smVars, sim_running, rl_agent,
                   visVars, pressed_keys>>
    /\ emu_thread' = "loop"

\* The policy worker finished: the handle resolves with an action index.
FutureDone ==
    /\ pending_action_future = <<"pending">>
    /\ \E r \in ActionResults : pending_action_future' = <<"done", r>>
    /\ UNCHANGED <<chanVars, now, execVars, mainVars, gateVars, smVars, sim_running, rl_agent, mode,
                   frame_count, last_action_frame, last_vision_frame,
                   current_button, button_frames_remaining, iterations,
                   emu_ticks, outstanding, had_sim_error, is_manual_mode,
                   dispatch_mode, visVars, kbVars>>

\* The policy worker raised: the handle resolves with an exception.
FutureFailed ==
    /\ pending_action_future = <<"pending">>
    /\ pending_action_future' = <<"failed">>
    /\ UNCHANGED <<chanVars, now, execVars, mainVars, gateVars, smVars, sim_running, rl_agent, mode,
                   frame_count, last_action_frame, last_vision_frame,
                   current_button, button_frames_remaining, iterations,
                   emu_ticks, outstanding, had_sim_error, is_manual_mode,
                   dispatch_mode, visVars, kbVars>>

\* ManualController.toggle_mode (F1, or !manual / !ai in the chat).
ToggleMode ==
    /\ sim_running
    /\ mode' = Toggled(mode)
    /\ UNCHANGED <<chanVars, now, execVars, mainVars, gateVars, smVars, sim_running, rl_agent,
                   frame_count, last_action_frame, last_vision_frame,
                   pending_action_future, current_button,
                   button_frames_remaining, iterations, emu_ticks, outstanding,
                   had_sim_error, is_manual_mode, dispatch_mode, visVars, kbVars>>

\* AvatarAISystem.stop: running = False, pokemon_enabled = False.
SimStop ==
    /\ sim_running
    /\ sim_running' = FALSE
    /\ UNCHANGED <<chanVars, now, execVars, mainVars, gateVars, smVars, rl_agent, mode,
                   frame_count, last_action_frame, last_vision_frame,
                   pending_action_future, current_button,
                   button_frames_remaining, iterations, emu_ticks, outstanding,
                   had_sim_error, is_manual_mode, dispatch_mode, visVars, kbVars>>

\* The game buttons of key_mapping a run presses on the keyboard.
Keys == {"a", "up"}

\* The keyboard listener's on_press for a mapped key (lines 147-158): in
\* Manual mode a key not yet in pressed_keys is added and _press_button
\* calls pyboy.button from the listener's thread.
KeyPress ==
    /\ sim_running
    /\ mode = "MANUAL"
    /\ \E key \in Keys \ pressed_keys : pressed_keys' = pressed_keys \cup {key}
    /\ emu_thread' = "listener"
    /\ UNCHANGED <<chanVars, now, execVars, mainVars, gateVars, smVars,
                   sim_running, rl_agent, mode, frame_count, last_action_frame,
                   last_vision_frame, pending_action_future, current_button,
                   button_frames_remaining, iterations, emu_ticks, outstanding,
                   had_sim_error, is_manual_mode, dispatch_mode, visVars>>

\* on_release for a mapped key (lines 178-187): a key of pressed_keys is
\* dropped and _release_button calls pyboy.button_release from the
\* listener's thread, whatever the control mode.
KeyRelease ==
    /\ sim_running
    /\ \E key \in pressed_keys : pressed_keys' = pressed_keys \ {key}
    /\ emu_thread' = "listener"
    /\ UNCHANGED <<chanVars, now, execVars, mainVars, gateVars, smVars,
                   sim_running, rl_agent, mode, frame_count, last_action_frame,
                   last_vision_frame, pending_action_future, current_button,
                   button_frames_remaining, iterations, emu_ticks, outstanding,
                   had_sim_error, is_manual_mode, dispatch_mode, visVars>>

\* Lines 509-545, _analyze_vision_async up to its await: what the task
\* does with the cache when it ends before reaching the worker pool.
\*   "state_raised": get_pokemon_state raises (outer except, line 544);
\*   "no_frame":     pokemon_vision is None or get_frame returns None;
\*   "frame_raised": get_frame raises (inner except, line 529).
CacheAfterStart(cache, outcome) ==
    IF outcome = "state_raised" THEN cache ELSE 0

\* Lines 523-534: the cache after the awaited analyze_frame of task ends.
\* A result replaces the cache; an exception of the worker is caught at
\* line 529 with vision_analysis still {}, and lines 533-534 clear the
\* cache and update it with {}.
CacheAfterWorker(cache, task, outcome) ==
    IF outcome = "ok" THEN task ELSE 0

\* The loop creates a task (line 436) and the task runs to its first await.
VisionStart ==
    /\ sim_running
    /\ vision_created < MaxVisionTasks
    /\ vision_created' = vision_created + 1
    /\ \E outcome \in {"await", "state_raised", "no_frame", "frame_raised"} :
          IF outcome = "await"
            THEN /\ vision_inflight' = vision_inflight \cup {vision_created'}
                 /\ UNCHANGED <<cached_vision_analysis, vision_last>>
            ELSE /\ cached_vision_analysis' =
                        CacheAfterStart(cached_vision_analysis, outcome)
                 /\ vision_last' = <<outcome, cached_vision_analysis,
                                     vision_created'>>
                 /\ UNCHANGED vision_inflight
    /\ UNCHANGED <<chanVars, now, execVars, mainVars, gateVars, smVars,
                   sim_running, rl_agent, mode, frame_count, last_action_frame,
                   last_vision_frame, pending_action_future, current_button,
                   button_frames_remaining, iterations, emu_ticks, outstanding,
                   had_sim_error, is_manual_mode, dispatch_mode, kbVars>>

\* analyze_frame returned or raised in the worker pool; the task resumes
\* and runs to its end.
VisionWorkerDone ==
    /\ \E task \in vision_inflight, outcome \in {"ok", "worker_raised"} :
          /\ vision_inflight' = vision_inflight \ {task}
          /\ cached_vision_analysis' =
                CacheAfterWorker(cached_vision_analysis, task, outcome)
          /\ vision_last' = <<outcome, cached_vision_analysis, task>>
    /\ UNCHANGED <<chanVars, now, execVars, mainVars, gateVars, smVars,
                   sim_running, rl_agent, mode, frame_count, last_action_frame,
                   last_vision_frame, pending_action_future, current_button,
                   button_frames_remaining, iterations, emu_ticks, outstanding,
                   had_sim_error, is_manual_mode, dispatch_mode, vision_created,
                   kbVars>>

\* The simulation loop with the keyboard listener's thread.
NextManual ==
    \/ SimIteration
    \/ ToggleMode
    \/ KeyPress
    \/ KeyRelease
    \/ SimStop

\* The perception tasks next to a running loop.
NextVision ==
    \/ VisionStart
    \/ VisionWorkerDone
    \/ SimStop

NextSim ==
    \/ SimIteration
    \/ FutureDone
    \/ FutureFailed
    \/ ToggleMode
    \/ SimStop

NextChannel ==
    \/ Enqueue
    \/ CallConnect
    \/ ConnectSucceed
    \/ ConnectFail
    \/ ReconnectWake
    \/ SenderWrite
    \/ SenderDrainOk
    \/ SenderDrainFail
    \/ SenderWriteFail
    \/ SenderCleanupDone
    \/ SenderPutBack
    \/ SenderBackoffDone

\* The state after construction, for an Executor cooldown and a
\* configuration of the Pokemon system.
InitWith(cooldown, pokemon, disable_brain, agent) ==
    /\ InitChannel
    /\ now = 0
    /\ InitExec(cooldown)
    /\ InitMain(pokemon, disable_brain)
    /\ InitSim(agent)
    /\ InitGate(0)
    /\ InitStateManager

\* Executor(action_cooldown=0.1) as AvatarAISystem builds it is one case of
\* InitExecutor; the default configuration has no Pokemon system.
Init == InitWith(0, FALSE, TRUE, "none")

\* The main loop without the Pokemon system (nothing that runs reads
\* disable_brain_while_gaming), or with it and either value of the flag.
InitMainLoop ==
    \E pokemon, disable_brain \in BOOLEAN :
        /\ pokemon \/ disable_brain
        /\ InitWith(0, pokemon, disable_brain, "none")

InitExecutor == \E cooldown \in 0..MaxCooldown : InitWith(cooldown, FALSE, TRUE, "none")

\* The main loop with its event sources.
Spec == InitMainLoop /\ [][NextMain]_vars

\* A step of the loop's own coroutine.
MainLoopStep ==
    \/ MainGetEvent
    \/ MainEventsTimeout
    \/ MainGetGameEvent
    \/ MainGameTimeout
    \/ MainGetChat
    \/ MainChatTimeout
    \/ MainAutonomous
    \/ MainBrainReturn
    \/ MainSleepDone
    \/ MainErrorSleepDone

\* The main loop of the default configuration: without the Pokemon
\* system nothing puts a game event in game_events_queue.
NextMainDefault ==
    \/ Tick
    \/ ArriveEvent
    \/ ArriveChat
    \/ MainGetEvent
    \/ MainEventsTimeout
    \/ MainGameTimeout
    \/ MainGetChat
    \/ MainChatTimeout
    \/ MainAutonomous
    \/ MainBrainReturn
    \/ MainSleepDone
    \/ MainErrorSleepDone

\* The main loop of the default configuration under the event loop's
\* scheduling: the coroutine takes its next step when it can (a poll returns
\* or times out, the awaited Brain call returns, a sleep ends), and the
\* clock advances.
SpecMainFair ==
    /\ Init
    /\ [][NextMainDefault]_vars
    /\ WF_vars(MainLoopStep)
    /\ WF_vars(Tick)

\* The Actuation Channel with its producers.
SpecChannel == Init /\ [][NextChannel]_vars

\* The channel with AvatarAISystem.stop(), which calls disconnect() once.
NextShutdown ==
    \/ NextChannel
    \/ DisconnectCall
    \/ DisconnectDone
    \/ SenderExit

SpecShutdown == Init /\ [][NextShutdown]_vars

\* The channel under the event loop's scheduling: a sender task that can
\* take its next step takes it (a ready task is run, a sleep ends, drain()
\* returns unless it raises), and the sleep of a reconnect task ends.
SpecChannelFair ==
    /\ SpecChannel
    /\ WF_vars(SenderWrite)
    /\ WF_vars(SenderDrainOk)
    /\ WF_vars(SenderBackoffDone)
    /\ WF_vars(SenderCleanupDone)
    /\ WF_vars(ReconnectWake)

\* The Executor on top of the channel's queue.
SpecExec == InitExecutor /\ [][NextExec]_vars

\* The Pokemon system started with a trained policy, with the SimpleAgent
\* fallback, or with no agent.
InitSimulation ==
    \E agent \in {"none", "rl", "simple"} : InitWith(0, TRUE, TRUE, agent)

\* The simulation loop with the policy worker and the mode switch.
SpecSim == InitSimulation /\ [][NextSim]_vars

\* The loop of a system without an agent, and the keyboard.
SpecManual == InitWith(0, TRUE, TRUE, "none") /\ [][NextManual]_vars

\* The perception tasks the simulation loop creates.
SpecVision == InitSimulation /\ [][NextVision]_vars

\* A caller of the decision gate at a fixed cadence: the first request at
\* any clock value, the gate's timestamp as __init__ leaves it.
InitCadence ==
    \E start \in 0..MaxStart :
        /\ InitChannel
        /\ now = 0
        /\ InitExec(0)
        /\ InitMain(FALSE, TRUE)
        /\ InitSim("none")
        /\ InitGate(start)
        /\ InitStateManager

SpecGate == InitCadence /\ [][NextGate]_vars

\* The StateManager alone, driven by arbitrary transition requests.
SpecState == Init /\ [][NextState]_vars

(***************************************************************************)
(*                                 Claims                                  *)
(***************************************************************************)
NoDup(s) == \A i, j \in 1..Len(s) : i # j => s[i] # s[j]
InSeq(s, m) == \E i \in 1..Len(s) : s[i] = m
Increasing(s) == \A i, j \in 1..Len(s) : i < j => s[i] < s[j]

\* The capacity C the channel's contract speaks of, taken one below the
\* number of commands enqueued, so that enqueuing them all is C+1 enqueues.
ClaimedCapacity == MaxCmds - 1

\* C2: when C+1 commands are enqueued while the channel is disconnected,
\* the oldest of them (command 1) is absent from the transmitted sequence
\* and the others are transmitted in their original relative order.
C2_OverflowDropsOldestKeepsOrder ==
    (enq_down = 1..(ClaimedCapacity + 1)) =>
        (~InSeq(written, 1) /\ Increasing(written))

\* C3: at-most-once delivery: no command is written twice; a command whose
\* write or drain failed is neither in the queue nor in the sender's hand
\* and is never written after the failure; while the sender handles the
\* failure the connection is marked down.
C3_AtMostOnce ==
    /\ NoDup(written)
    /\ \A p \in lost :
          /\ ~InSeq(send_queue, p[1])
          /\ sender_msg # p[1]
          /\ \A i \in 1..Len(written) : i > p[2] => written[i] # p[1]
    /\ sender_pc = "cleanup" => ~is_connected

\* C3 witness: a transmission failed, the channel reconnected and a later
\* command was written after the failure.
C3_Witness ==
    \E p \in lost : Len(written) > p[2] /\ is_connected /\ sender_pc = "get"

\* C5: the executor never sends more than max_actions_per_sec actions in
\* any trailing one-second window: at every send, the sends of the last
\* second (that one included) number at most max_actions_per_sec.
C5_RateCapInEveryWindow ==
    \A i \in 1..Len(send_times) :
        Cardinality({j \in 1..i : send_times[j] > send_times[i] - OneSecond})
            <= max_actions_per_sec

Range(s) == {s[i] : i \in 1..Len(s)}

\* C1 (as claimed): a chat message is never handed to _process_chat_message
\* while a platform event is waiting in events_queue.
C1_NoChatWhileEventWaiting ==
    [][Len(chat_queue') < Len(chat_queue) => events_queue = <<>>]_vars

\* C1 (amended): a chat message is handed to _process_chat_message only in
\* an iteration whose events poll found events_queue empty, so every
\* platform event waiting at that moment was put after that poll.
C1_ChatOnlyAfterEmptyEventsPoll ==
    [][Len(chat_queue') < Len(chat_queue) =>
          (polled_empty /\ Range(events_queue) \subseteq arrived_since_poll)]_vars

\* C1 witness: a chat message is with the Brain while a platform event waits.
C1_Witness ==
    main_pc = "brain" /\ main_item[1] = "chat" /\ events_queue # <<>>

\* C6: the gate admits a request iff at least brain_decision_interval has
\* passed since its timestamp; an admission sets the timestamp to the
\* request's time, a rejection leaves it; two admissions are never less
\* than one interval apart and a request one interval or more after the
\* last admission is admitted.
C6_GateAdmitsOncePerInterval ==
    gate_last # <<>> =>
        /\ gate_last[4] = (gate_last[1] - gate_last[2] >= brain_decision_interval)
        /\ gate_last[4] => gate_last[3] = gate_last[1]
        /\ ~gate_last[4] => gate_last[3] = gate_last[2]
        /\ last_brain_decision_time = gate_last[3]
        /\ (gate_last[4] /\ gate_last[5] >= 0) =>
              gate_last[1] - gate_last[5] >= brain_decision_interval
        /\ (gate_last[5] >= 0
              /\ gate_last[1] - gate_last[5] >= brain_decision_interval) =>
              gate_last[4]

\* C6 witness: a request admitted after an earlier admission.
C6_Witness == gate_last # <<>> /\ gate_last[4] /\ gate_last[5] >= 0

C8_GatedCallsThroughGate ==
    (brain_call # <<>> /\ brain_call[1] \in {"chat", "auto"}) =>
        /\ brain_call[3] = "admitted"
        /\ gate_last # <<>>
        /\ gate_last[4]
        /\ gate_last[1] = brain_call[4]
        /\ brain_call[5] >= 0 =>
              brain_call[4] - brain_call[5] >= brain_decision_interval

\* C8 witness: a second gated Brain call (an autonomous request after a
\* chat message, or a chat message after another).
C8_Witness ==
    brain_call # <<>> /\ brain_call[1] \in {"chat", "auto"} /\ brain_call[5] >= 0

\* C4: the pending queue never holds more than its capacity C commands
\* (an enqueue on a full queue evicts the oldest command).
C4_QueueBounded == Len(send_queue) <= ClaimedCapacity

\* C9: in the simulation loop at most one decision is outstanding at any
\* time: the handles dispatched and not yet consumed never number more than
\* one, and that one is the handle pending_action_future holds, for any
\* sequence of ticks, mode switches and handle completions.
C9_AtMostOneDecisionOutstanding ==
    /\ outstanding \in {0, 1}
    /\ (outstanding = 1) <=> (pending_action_future # <<>>)

\* In AI mode a decision is still outstanding a full decision interval
\* after it was dispatched: only the held handle keeps the loop from
\* dispatching the next one.
C9_Witness ==
    /\ mode = "AI"
    /\ pending_action_future = <<"pending">>
    /\ outstanding = 1
    /\ last_action_frame >= action_interval_frames
    /\ frame_count - last_action_frame >= action_interval_frames

\* C10: every iteration of the simulation loop ticks the emulator once and
\* adds one to frame_count, whatever the control mode, the held button, the
\* outstanding decision and the failures of decision handling: after n
\* iterations the counter is n and n frames were emulated.
C10_OneTickPerIteration ==
    /\ frame_count = iterations
    /\ emu_ticks = iterations

\* Iterations have run in manual mode, with a decision outstanding, and one
\* ended in the except branch.
C10_Witness ==
    /\ iterations > action_interval_frames
    /\ mode = "MANUAL"
    /\ had_sim_error
    /\ pending_action_future # <<>>

\* C11 (as claimed): while ControlMode is Manual the simulation loop
\* dispatches no decision: no decision is started at a moment at which
\* ManualController.mode is MANUAL.
C11_NoDispatchWhileManual == dispatch_mode # "MANUAL"

\* C11 (amended): an iteration whose read of the control mode (line 439)
\* returned Manual starts no decision, whatever the frame counters hold.
C11_NoDispatchInManualIteration ==
    is_manual_mode => dispatch_mode = "none"

\* C11 witness: an iteration ran in Manual mode with an agent, no held
\* button, no outstanding decision and a full decision interval elapsed.
C11_Witness ==
    /\ is_manual_mode
    /\ rl_agent # "none"
    /\ pending_action_future = <<>>
    /\ button_frames_remaining = 0
    /\ frame_count - last_action_frame > action_interval_frames
    /\ iterations = frame_count

\* The actions of its list the current call of execute_actions has sent
\* when it stands at position pc with loop index i.
SentSoFar(pc, i, n) ==
    CASE pc = "idle"     -> n
      [] pc = "cooldown" -> i
      [] OTHER           -> i - 1

\* C12: execute_actions never drops or reorders: the actions the call has
\* sent are the first k of its list, each once and in list order (all of
\* them when the call has returned), also after a saturated window; their
\* commands are the last k of the channel's queue, in the same order; a
\* call with an empty list sends nothing and leaves the rate window as it
\* was.
C12_SendsAllInOrder ==
    /\ [](/\ Len(exec_sent) = SentSoFar(exec_pc, exec_i, exec_n)
          /\ Len(send_queue) >= Len(exec_sent)
          /\ \A k \in 1..Len(exec_sent) :
                /\ exec_sent[k][1] = k
                /\ send_queue[Len(send_queue) - Len(exec_sent) + k]
                      = exec_sent[k][2])
    /\ [][(exec_calls' > exec_calls /\ exec_n' = 0) =>
             (/\ action_times' = action_times
              /\ send_queue' = send_queue
              /\ send_times' = send_times
              /\ exec_pc' = "idle")]_vars

\* C12 witness: a call has returned after sending its whole list, one of
\* the actions having waited for a saturated window.
C12_Witness ==
    /\ exec_pc = "idle"
    /\ exec_n = MaxActions
    /\ Len(exec_sent) = MaxActions
    /\ exec_calls = 1
    /\ action_cooldown = 0
    /\ exec_wake > 0

\* C13: if at the start of a main-loop iteration a platform event and a chat
\* message are both queued, the event's command is enqueued before any
\* command of the chat message: when a command is enqueued for the chat
\* message, the event has been dequeued and its handler, which enqueues
\* the event's command, has returned.
C13_EventCommandBeforeChatCommand ==
    \A pr \in both_pending :
        last_cmd_source = <<"chat", pr[2]>> =>
            /\ pr[1] < next_event
            /\ ~InSeq(events_queue, pr[1])
            /\ main_item # <<"event", pr[1]>>
            /\ <<"event", pr[1]>> \in brain_called

\* C13 witness: a command is enqueued for a chat message that was queued
\* together with a platform event at the start of an iteration.
C13_Witness ==
    \E pr \in both_pending : last_cmd_source = <<"chat", pr[2]>>

\* C14 (as claimed): every game event taken from game_events_queue is
\* handed to Brain.process_game_event: a game event put in the queue is in
\* the queue or was handed to the Brain.
C14_GameEventsReachBrain ==
    \A g \in 1..(next_game - 1) :
        InSeq(game_events_queue, g) \/ <<"game", g>> \in brain_called

\* C14 (amended): with disable_brain_while_gaming false every dequeued game
\* event is handed to Brain.process_game_event, the gate neither consulted
\* nor advanced; with the flag true (the default) no game event reaches the
\* Brain: the dequeued event is discarded.
C14_GameEventsReachBrainUnlessDisabled ==
    /\ ~disable_brain_while_gaming => C14_GameEventsReachBrain
    /\ disable_brain_while_gaming =>
          \A g \in 1..(next_game - 1) : <<"game", g>> \notin brain_called
    /\ main_item[1] = "game" =>
          /\ main_pc = "brain"
          /\ brain_call # <<>>
          /\ brain_call[3] = "bypass"
          /\ gate_last = <<>>
          /\ last_brain_decision_time = brain_call[6]

\* C14 witness: the Brain works on a game event handed over less than one
\* interval after the gate's last admission.
C14_Witness ==
    /\ main_item[1] = "game"
    /\ brain_call # <<>>
    /\ last_admit >= 0
    /\ brain_call[4] - brain_call[6] < brain_decision_interval

\* C15: the very first call of the decision gate is admitted, at whatever
\* clock value it is made.
C15_FirstCallAdmitted ==
    (gate_last # <<>> /\ gate_last[6]) => gate_last[4]

\* C16: of N requests to the decision gate spaced half an interval apart,
\* exactly ceil(N/2) are admitted, for every N.
C16_HalfCadenceAdmitsEverySecond ==
    gate_admitted = (gate_n + 1) \div 2

\* C17, first part: transition_to with a target equal to the current state
\* changes nothing: no log entry, the state-start clock not reset.
C17_SameStateChangesNothing ==
    (sm_request # <<>> /\ sm_request[1] = sm_request[2]) =>
        /\ current_state = sm_request[2]
        /\ Len(state_history) = sm_request[3]
        /\ state_start_time = sm_request[4]

\* C17, second part: the log holds exactly one entry per request whose
\* target differed from the then-current state.
C17_OneEntryPerDistinctRequest == Len(state_history) = sm_distinct

\* C17, third part: the prior-duration computed for an accepted transition
\* is non-negative.
C17_DurationNonNegative ==
    (sm_request # <<>> /\ sm_request[5]) => sm_request[6] >= 0

\* C17: a transition to the current state changes nothing, the log holds
\* one entry per request to a different state, and every prior-duration of
\* an accepted transition is non-negative.
C17_TransitionLog ==
    /\ C17_SameStateChangesNothing
    /\ C17_OneEntryPerDistinctRequest
    /\ C17_DurationNonNegative

\* C18: enqueueing never blocks the producer: in every channel state a
\* producer that has a command to send can enqueue it, and the enqueue is one
\* step that appends the command and touches neither the connection nor the
\* sender loop.
C18_EnqueueNeverBlocks ==
    /\ [](next_cmd <= MaxCmds => ENABLED Enqueue)
    /\ [][next_cmd' # next_cmd =>
            /\ send_queue' = Append(send_queue, next_cmd)
            /\ UNCHANGED <<is_connected, writer, sender_pc, sender_msg,
                           connecting, reconnect_sleeping, written>>]_vars

\* C18 witness: a command enqueued while the channel was disconnected waits
\* in the queue behind another one, the channel still disconnected and a
\* reconnect pending.
C18_Witness ==
    /\ ~is_connected
    /\ reconnect_sleeping > 0
    /\ Len(send_queue) >= 2
    /\ send_queue[Len(send_queue)] \in enq_down

C20_GoalSendsActions ==
    (last_return # <<>> /\ BrainDecision(last_return[1][1], last_return[2]) = "GOAL") =>
        /\ main_pc # "error_sleep"
        /\ last_cmd_source = last_return[1]
        /\ send_queue # <<>>

\* C21: with cooldown 0, the sends of a list of L actions span at least
\* ceil(L/N) - 1 seconds from the first to the last, N being
\* max_actions_per_sec: whenever the current call has sent k actions, its
\* last send is at least ceil(k/N) - 1 seconds after its first.
C21_DrainTakesWholeSeconds ==
    (action_cooldown = 0 /\ Len(exec_sent) > 0) =>
        LET k == Len(exec_sent)
            first == send_times[Len(send_times) - k + 1]
            last == send_times[Len(send_times)]
        IN  last - first >=
                (((k + max_actions_per_sec - 1) \div max_actions_per_sec) - 1) * OneSecond

\* The commands whose write or drain failed.
Failed == {p[1] : p \in lost}

\* C22, the put-back step: a sender that dequeues a command while the
\* connection is down puts that command back at the tail of the queue and
\* transmits nothing.
C22_PutBackStep ==
    [][(sender_pc = "get" /\ sender_pc' = "backoff") =>
          /\ send_queue' = Append(Tail(send_queue), Head(send_queue))
          /\ written' = written]_vars

\* C22, delivery: a queued command that was enqueued while the channel was
\* disconnected is transmitted if the connection is up and stays up.
C22_DeliveredOnceUp ==
    \A c \in 1..MaxCmds :
        (c \in enq_down /\ InSeq(send_queue, c) /\ is_connected)
            ~> (InSeq(written, c) \/ ~is_connected)

\* C22 (as claimed): the put-back step, no command enqueued while the channel
\* was disconnected is ever lost (it is in the queue until it is
\* transmitted), and each is transmitted once the connection is up and stays
\* up.
C22_NothingEnqueuedWhileDownIsLost ==
    /\ C22_PutBackStep
    /\ [](\A c \in enq_down : InSeq(send_queue, c) \/ InSeq(written, c))
    /\ C22_DeliveredOnceUp

\* C22 (amended): the put-back step; a command enqueued while the channel
\* was disconnected stays in the queue until the sender takes it with the
\* connection up: it is then transmitted, or dropped when that write fails;
\* and each queued one is transmitted once the connection is up and stays
\* up.
C22_PutBackKeepsUntilTransmitOrFailure ==
    /\ C22_PutBackStep
    /\ [](\A c \in enq_down :
             InSeq(send_queue, c) \/ InSeq(written, c) \/ c \in Failed)
    /\ C22_DeliveredOnceUp

\* C22 witness: two commands enqueued while the channel was disconnected
\* have been transmitted after a reconnect, in the order a put-back left
\* them in.
C22_Witness ==
    /\ is_connected
    /\ \E i, j \in 1..Len(written) :
          /\ i < j
          /\ written[i] > written[j]
          /\ {written[i], written[j]} \subseteq enq_down

\* C23: after disconnect() has returned the channel stays shut down: the
\* sender loop is stopped, no reconnect attempt is pending (sleeping or
\* inside connect()), the channel is not connected and no command is
\* transmitted any more.
C23_StaysShutDown ==
    /\ [](disc_pc = "done" =>
             /\ sender_pc \in {"none", "done"}
             /\ reconnect_sleeping = 0
             /\ connecting = 0
             /\ ~is_connected)
    /\ [][disc_pc = "done" => written' = written]_vars

\* C24: a transmit failure schedules exactly one reconnect attempt, and at
\* no time are two reconnect attempts pending at once (sleeping in
\* _schedule_reconnect or inside connect()); none is pending while the
\* channel is connected.
C24_OneReconnectAtATime ==
    /\ [](/\ reconnect_sleeping + connecting <= 1
          /\ is_connected => reconnect_sleeping + connecting = 0)
    /\ [][/\ lost' # lost => UNCHANGED <<reconnect_sleeping, connecting>>
          /\ (sender_pc = "cleanup" /\ sender_pc' = "get") =>
                /\ reconnect_sleeping' = reconnect_sleeping + 1
                /\ connecting' = connecting]_vars

\* C24 witness: a second transmit failure has scheduled its reconnect
\* attempt, the only one pending.
C24_Witness ==
    /\ Cardinality(lost) >= 2
    /\ sender_pc = "get"
    /\ ~is_connected
    /\ reconnect_sleeping = 1
    /\ connecting = 0

\* C25: while the channel is down (and disconnect() not called) reconnect
\* attempts continue: every failed connect() schedules the next attempt,
\* a started channel that is down always has an attempt pending (or the
\* sender is about to schedule one), and if the remote end accepts
\* connections again and again the channel becomes connected.
C25_ReconnectsUntilConnected ==
    /\ [][(connecting' = connecting - 1 /\ ~is_connected') =>
             reconnect_sleeping' = reconnect_sleeping + 1]_vars
    /\ []((connect_called /\ ~is_connected /\ sender_pc # "cleanup") =>
             reconnect_sleeping + connecting >= 1)
    /\ (SF_vars(ConnectSucceed) =>
           ((connect_called /\ ~is_connected) ~> is_connected))

\* C25 witness: a transmit failure took the channel down and a reconnect
\* attempt has connected it again.
C25_Witness ==
    /\ is_connected
    /\ Cardinality(lost) >= 1
    /\ sender_pc = "get"
    /\ reconnect_sleeping + connecting = 0

\* The step that reaches line 677: the autonomous check finds the interval
\* elapsed and the chat and platform queues empty, and calls
\* _make_autonomous_decision.
AutonomousRequested == main_pc = "autonomous" /\ AutonomousDue /\ main_pc' # main_pc

\* C26: an iteration of the main loop feeds at most one item into the
\* decision pipeline: an iteration that served a platform event, a game event
\* or a chat message issues no autonomous decision request.
C26_AtMostOneItemPerIteration ==
    [][AutonomousRequested => iter_served = <<>>]_vars

\* C27: an autonomous decision request is issued only in an iteration in
\* which no source yielded an item, with the platform, game and chat queues
\* all empty and at least autonomous_decision_interval after the last
\* autonomous request.
C27_AutonomousOnlyWhenIdle ==
    [][AutonomousRequested =>
          /\ iter_served = <<>>
          /\ events_queue = <<>>
          /\ game_events_queue = <<>>
          /\ chat_queue = <<>>
          /\ now - last_autonomous_decision >= autonomous_decision_interval]_vars

\* One iteration of the simulation loop ran.
LoopIterated == iterations' = iterations + 1

\* C28: a button the simulation loop applies at tick k is held for 8 ticks
\* and released at tick k+8: applying sets the counter to 8, every tick
\* with a running counter takes exactly one off it, and the loop holds a
\* button only while the counter is above zero (the release happens when
\* it reaches zero), so no applied button stays pressed.
C28_HeldEightTicksThenReleased ==
    /\ [](current_button # 0 => button_frames_remaining > 0)
    /\ [][LoopIterated =>
            /\ (button_frames_remaining > 0 =>
                    button_frames_remaining' = button_frames_remaining - 1)
            /\ (button_frames_remaining = 0 /\ current_button' # 0 =>
                    button_frames_remaining' = HoldFrames)]_vars

C30_ThinkingDuringCallThenUpdated ==
    /\ [](main_pc = "brain" => current_state = "THINKING")
    /\ [][main_pc = "brain" /\ main_pc' # "brain" =>
            /\ last_return' # <<>>
            /\ current_state' =
                  UpdateStateFromDecision("THINKING",
                      BrainDecision(last_return'[1][1], last_return'[2]))
            /\ current_state' \in {"PLAYING", "TALKING", "IDLE"}
            /\ (next_cmd' # next_cmd => current_state' = "TALKING")
            /\ (main_pc' = "error_sleep" => current_state' = "PLAYING")]_vars

\* C30 witness: the Brain is being called for a chat message after an
\* earlier call, for another item, has returned and its decision has moved
\* the state away from THINKING.
C30_Witness ==
    /\ main_pc = "brain"
    /\ main_item[1] = "chat"
    /\ Cardinality(brain_called) >= 2
    /\ current_state = "THINKING"

\* The outcomes of a perception task that are failures.
VisionFailures == {"state_raised", "frame_raised", "worker_raised"}

\* C31: when a perception task fails the cached perception result is left
\* as it was: the step in which a task ends in a failure does not change
\* cached_vision_analysis, so the tick keeps reading the result of the last
\* analysis that succeeded.
C31_FailedVisionKeepsCache ==
    [][vision_last' # vision_last /\ vision_last'[1] \in VisionFailures =>
          cached_vision_analysis' = cached_vision_analysis]_vars

\* C32: the emulator is mutated only by the simulation loop: no call of
\* pyboy.tick, pyboy.button or pyboy.button_release is made by another
\* thread or callback while the loop runs.
C32_OnlyLoopTouchesEmulator == emu_thread \in {"none", "loop"}

\* Nothing waits in the three queues.
QueuesEmpty ==
    events_queue = <<>> /\ game_events_queue = <<>> /\ chat_queue = <<>>

\* The except branch is sleeping past the end of the model's clock.
BeyondClock == main_pc = "error_sleep" /\ main_wake > MaxTime

\* C33: an exception raised while handling a dequeued item is caught
\* inside the main loop.  The step that raises leaves the three queues as
\* they are and drops the item; no item handed to the Brain is ever in a
\* queue again (the failed item is not retried); and the loop keeps running:
\* whatever waits in a queue while the loop sits in its except branch is
\* dequeued and handled afterwards.
C33_ExceptionCaughtLoopGoesOn ==
    /\ [][main_pc # "error_sleep" /\ main_pc' = "error_sleep" =>
            /\ events_queue' = events_queue
            /\ game_events_queue' = game_events_queue
            /\ chat_queue' = chat_queue
            /\ main_item' = <<"none", 0>>]_vars
    /\ [](\A it \in brain_called :
            /\ it[1] = "event" => ~InSeq(events_queue, it[2])
            /\ it[1] = "game" => ~InSeq(game_events_queue, it[2])
            /\ it[1] = "chat" =>
                  \A j \in 1..Len(chat_queue) : chat_queue[j][1] # it[2])
    /\ (main_pc = "error_sleep" ~> (QueuesEmpty \/ BeyondClock))

\* C33 witness: handling an item raised, the loop is in its except branch
\* with time left on the clock, and a chat message has been queued.
C33_Witness ==
    /\ main_pc = "error_sleep"
    /\ main_wake <= MaxTime
    /\ brain_called # {}
    /\ chat_queue # <<>>

\* C34: a transition callback is fired on every accepted transition of the
\* state machine, exactly once for each, and never for a transition to the
\* current state: the callback has been called as many times as the
\* transition log has entries.
C34_CallbackPerAcceptedTransition == callbacks_fired = Len(state_history)

\* C35: update_state_from_decision maps GOAL to PLAYING, SAY to TALKING and
\* IDLE to IDLE from every current state, logging the transition when the
\* state changes, and a call with any other decision type leaves the state
\* and the transition log unchanged.
C35_DecisionMapsToState ==
    sm_decision # <<>> =>
        LET d      == sm_decision[1]
            before == sm_decision[2]
            len    == sm_decision[3]
        IN  /\ d = "GOAL" => current_state = "PLAYING"
            /\ d = "SAY" => current_state = "TALKING"
            /\ d = "IDLE" => current_state = "IDLE"
            /\ d \notin {"GOAL", "SAY", "IDLE"} =>
                  current_state = before /\ Len(state_history) = len
            /\ current_state # before =>
                  /\ Len(state_history) = len + 1
                  /\ state_history[len + 1][2] = current_state
            /\ current_state = before => Len(state_history) = len

\* C35 witness: a SAY decision arrived while the state was PLAYING and
\* moved it to TALKING.
C35_Witness ==
    /\ sm_decision # <<>>
    /\ sm_decision[1] = "SAY"
    /\ sm_decision[2] = "PLAYING"
    /\ current_state = "TALKING"

\* C36: a chat message dequeued while the decision gate is closed is
\* discarded for good.  The step that drops it takes it off chat_queue and
\* leaves the activity state, the gate's timestamp and the outbound queue
\* as they were; from then on it is never in chat_queue again and is never
\* handed to the Brain.
C36_GateClosedChatDiscarded ==
    /\ [](\A id \in gate_dropped :
            /\ \A j \in 1..Len(chat_queue) : chat_queue[j][1] # id
            /\ <<"chat", id>> \notin brain_called
            /\ main_item # <<"chat", id>>)
    /\ [][gate_dropped' # gate_dropped =>
            /\ chat_queue' = Tail(chat_queue)
            /\ current_state' = current_state
            /\ last_brain_decision_time' = last_brain_decision_time
            /\ send_queue' = send_queue
            /\ next_cmd' = next_cmd]_vars

\* C36 witness: the gate dropped a chat message, and later the loop called
\* the Brain for something else.
C36_Witness ==
    /\ gate_dropped # {}
    /\ main_pc = "brain"

\* C37 (as claimed): a decision still outstanding when control went to
\* Manual is applied in the first AI-mode tick after control returns: the
\* first iteration that runs in AI mode after one that read Manual, with a
\* handle outstanding, applies a button.
C37_AppliedInFirstAITick ==
    [][LoopIterated /\ is_manual_mode /\ mode = "AI" /\
       pending_action_future # <<>> =>
          button_frames_remaining' = HoldFrames /\ current_button' # 0]_vars

\* C37 (amended): an iteration in Manual mode leaves the outstanding
\* handle as it is; an iteration in AI mode leaves a handle that has not
\* resolved as it is, and applies the button of one that resolved with a key
\* of button_map, however many frames have passed since the dispatch.
C37_KeptThenAppliedOnceResolved ==
    [][LoopIterated =>
          /\ (mode = "MANUAL" => pending_action_future' = pending_action_future)
          /\ (mode = "AI" /\ pending_action_future = <<"pending">> =>
                 pending_action_future' = pending_action_future)
          /\ (/\ mode = "AI"
              /\ pending_action_future # <<>>
              /\ pending_action_future[1] = "done"
              /\ pending_action_future[2] \in ButtonMap
              => /\ current_button' = pending_action_future[2]
                 /\ button_frames_remaining' = HoldFrames)]_vars

\* C37 witness: a handle dispatched in AI mode resolved with a button and
\* was kept through iterations in Manual mode, for more than a decision
\* interval; control is back in AI mode.
C37_Witness ==
    /\ is_manual_mode
    /\ mode = "AI"
    /\ pending_action_future = <<"done", 1>>
    /\ frame_count - last_action_frame > action_interval_frames

ControlCommandStep ==
    /\ main_pc = "poll_chat"
    /\ chat_queue # <<>>
    /\ Len(chat_queue') < Len(chat_queue)
    /\ pokemon_enabled
    /\ Head(chat_queue)[2] = "command"

\* The step neither consults the gate nor calls the Brain and leaves the
\* gate's time stamp and the activity state as they were.
BypassesGateAndBrain ==
    /\ last_brain_decision_time' = last_brain_decision_time
    /\ current_state' = current_state
    /\ gate_last' = <<>>
    /\ gate_used' = gate_used
    /\ brain_called' = brain_called
    /\ brain_call' = <<>>
    /\ main_pc' # "brain"

\* C39 (as claimed): a chat message that is a manual-control command never
\* reaches the gate or the Brain, leaves last_brain_decision_time and the
\* activity state unchanged, and enqueues exactly one SAY command.
C39_CommandEnqueuesExactlyOneSay ==
    [][ControlCommandStep =>
          /\ BypassesGateAndBrain
          /\ next_cmd' = next_cmd + 1]_vars

\* C39 (amended): a chat message that is a manual-control command never
\* reaches the gate or the Brain and leaves last_brain_decision_time and
\* the activity state unchanged; it enqueues the status SAY and at most one
\* further SAY, that of the callback of a command that changed the control
\* mode or saved or loaded the game: one or two commands, the last of them
\* at the tail of the send queue, and the message is gone from chat_queue.
C39_CommandBypassesGateOneOrTwoSays ==
    [][ControlCommandStep =>
          /\ BypassesGateAndBrain
          /\ next_cmd' - next_cmd \in {1, 2}
          /\ send_queue' # <<>>
          /\ send_queue'[Len(send_queue')] = next_cmd' - 1
          /\ chat_queue' = Tail(chat_queue)
          /\ last_cmd_source' = <<"chat", Head(chat_queue)[1]>>]_vars

\* C39 witness: a command message was handled and two SAY commands were
\* enqueued for it; no other item was handled before it.
C39_Witness ==
    /\ last_cmd_source # <<>>
    /\ last_cmd_source[1] = "chat"
    /\ next_cmd = 3
    /\ next_event = 1
    /\ next_game = 1
    /\ ~gate_used
    /\ main_pc = "autonomous"

\* An iteration of the simulation loop applies a decided button (lines
\* 462-464): it found a handle and leaves the counter at HoldFrames.
ButtonApplied ==
    /\ LoopIterated
    /\ pending_action_future # <<>>
    /\ button_frames_remaining' = HoldFrames

\* An iteration of the simulation loop dispatches a decision (lines
\* 473-493).
DecisionDispatched ==
    /\ LoopIterated
    /\ dispatch_mode' # "none"

\* C40: on the AI path a decided button is applied only when the counter
\* of the previous hold has run out: at every application
\* button_frames_remaining is 0 and the applied button is the result of
\* the handle in flight; a decision is dispatched only in an iteration
\* that leaves the counter at 0 and found no handle outstanding, so while
\* a handle is outstanding the counter is 0 and at most one decision is in
\* flight; as long as no iteration has raised, no button is recorded as
\* held at an application; and two consecutive dispatches are at least
\* action_interval_frames (12) frames apart: a dispatch sets
\* last_action_frame to its frame, last_action_frame never decreases, and
\* a dispatch needs frame_count - last_action_frame >= 12.
C40_AppliedOnlyWhenHoldRanOut ==
    /\ [](pending_action_future # <<>> => button_frames_remaining = 0)
    /\ [](outstanding <= 1)
    /\ [](outstanding = 1 <=> pending_action_future # <<>>)
    /\ [][ButtonApplied =>
             /\ button_frames_remaining = 0
             /\ mode = "AI"
             /\ pending_action_future[1] = "done"
             /\ current_button' = pending_action_future[2]]_vars
    /\ [][ButtonApplied /\ ~had_sim_error => current_button = 0]_vars
    /\ [][DecisionDispatched =>
             /\ button_frames_remaining' = 0
             /\ mode = "AI"
             /\ pending_action_future' # <<>>
             /\ outstanding' = 1
             /\ \/ pending_action_future = <<>>
                \/ pending_action_future[1] # "pending"
             /\ frame_count' - last_action_frame >= action_interval_frames
             /\ last_action_frame' = frame_count']_vars
    /\ [][last_action_frame' >= last_action_frame]_vars

\* C40 witness: a button decided in a dispatch at frame
\* 2 * action_interval_frames has just been applied.
C40_Witness ==
    /\ button_frames_remaining = HoldFrames
    /\ current_button # 0
    /\ pending_action_future = <<>>
    /\ last_action_frame = 2 * action_interval_frames
    /\ frame_count > last_action_frame

=============================================================================
